---------------------------- MODULE Spec2Model ----------------------------
(***************************************************************************)
(* Model of the code-chunking and vector-indexing pipeline of              *)
(* frontend/src-tauri/src/indexer: chunker.rs (chunk_file and its two      *)
(* paths), tree_sitter_parser.rs (semantic unit extraction), store.rs      *)
(* (VectorStore over two SQLite tables) and commands.rs (index one file).  *)
(*                                                                         *)
(* Text is a sequence of one-character strings.  Option<T> is a sequence   *)
(* of length 0 (None) or 1 (Some).  usize arithmetic is modelled on the    *)
(* naturals; every value of the model stays far below 2^32.                *)
(***************************************************************************)
EXTENDS Integers, Sequences, FiniteSets, TLC

VARIABLES
    \* ---- chunker (chunker.rs) ----
    content,            \* the file content handed to chunk_file
    file_path,          \* the relative file path handed to chunk_file
    config,             \* IndexerConfig: max/min/overlap lines
    cpc,                \* "input" before chunk_file ran, "done" after
    parsed,             \* what parse_source returned (None or Some(tree))
    units,              \* what extract_semantic_units returned (when parsed)
    chunks,             \* the Vec<CodeChunk> chunk_file returned
    loop_start,         \* the local `start` of the running window loop
    \* ---- vector store (store.rs) ----
    conn,               \* Mutex<Option<Connection>>: FALSE = None, TRUE = Some
    code_chunks,        \* table code_chunks: chunk id -> metadata row
    chunk_embeddings,   \* table chunk_embeddings: chunk id -> embedding
    ret,                \* what the last store call returned
    \* ---- indexer_index_file (commands.rs) ----
    task,               \* the running index-file command: position and locals
    peer,               \* a second index-file command running at the same time
    next_uuid,          \* Uuid::new_v4: the next identifier never handed out
    \* ---- embedder (embedder.rs) ----
    model,              \* Mutex<Option<TextEmbedding>>: 0 = None, n = the n-th
                        \* model that was loaded
    provider,           \* the loaded model as a function: text -> vector
    eret                \* what the last embedder call returned, and the
                        \* calls of on_progress it made

vars == <<content, file_path, config, cpc, parsed, units, chunks,
          loop_start,
          conn, code_chunks, chunk_embeddings, ret, task, peer, next_uuid,
          model, provider, eret>>

chunkerVars ==
    <<content, file_path, config, cpc, parsed, units, chunks, loop_start>>
storeVars ==
    <<conn, code_chunks, chunk_embeddings, ret, task, peer, next_uuid>>
embedderVars == <<model, provider, eret>>

---------------------------------------------------------------------------
(* Bounds of the model.                                                    *)

\* longest content (in characters) chunked by the line-based path
MaxContentLen == 5
\* longest content (in characters) for which syntax trees are enumerated
MaxParsedLen == 3
\* largest value of max_chunk_lines, min_chunk_lines and overlap_lines
MaxCfg == 3
\* chunk identifiers 1..MaxChunkId are handed to the store's insert directly
MaxChunkId == 2
\* the dimension of the store's vector column in the model
EmbeddingDim == 1
\* largest limit of a search
MaxLimit == 2
\* identifiers Uuid::new_v4 hands out in a run of index-file commands
MaxUuid == 4
MaxTexts == 3
\* length (in characters) of the source whose nested syntax trees are enumerated
MaxTreeBytes == 3
\* depth of those trees below the root
MaxTreeDepth == 2

---------------------------------------------------------------------------
(* Helpers.                                                                *)

None == <<>>
Some(x) == <<x>>

Min(a, b) == IF a <= b THEN a ELSE b
Max(a, b) == IF a >= b THEN a ELSE b

\* usize::saturating_sub
SaturatingSub(a, b) == IF a >= b THEN a - b ELSE 0

NL == "\n"

\* every text of at most n characters over the alphabet {a, newline}
Texts(n) == UNION {[1..k -> {"a", NL}] : k \in 0..n}

\* the half-open 0-indexed byte range [from, to) of a text: source[from..to]
Slice(s, from, to) == SubSeq(s, from + 1, to)

\* str::lines(): the text split at newlines, each newline ending a line; what
\* follows the last newline is a line only when it is not empty
RECURSIVE NewlinesBetween(_, _, _)
NewlinesBetween(s, lo, hi) ==
    IF lo > hi THEN <<>>
    ELSE IF lo = hi THEN (IF s[lo] = NL THEN <<lo>> ELSE <<>>)
    ELSE NewlinesBetween(s, lo, (lo + hi) \div 2)
         \o NewlinesBetween(s, (lo + hi) \div 2 + 1, hi)

Lines(s) ==
    LET nl == NewlinesBetween(s, 1, Len(s))
        n == Len(nl)
        tail == IF Len(s) > 0 /\ s[Len(s)] # NL THEN 1 ELSE 0
    IN  [k \in 1..(n + tail) |->
            SubSeq(s, IF k = 1 THEN 1 ELSE nl[k - 1] + 1,
                   IF k <= n THEN nl[k] - 1 ELSE Len(s))]

\* [&str]::join("\n")
RECURSIVE JoinLines(_)
JoinLines(ls) ==
    IF ls = <<>> THEN <<>>
    ELSE IF Len(ls) = 1 THEN ls[1]
    ELSE LET half == Len(ls) \div 2 IN
         JoinLines(SubSeq(ls, 1, half)) \o <<NL>>
             \o JoinLines(SubSeq(ls, half + 1, Len(ls)))

\* tree-sitter Point.row of a byte offset: the newlines before it
Row(s, byte) == Cardinality({i \in 1..byte : s[i] = NL})

---------------------------------------------------------------------------
(* Paths and languages (chunker.rs, tree_sitter_parser.rs).                *)

\* the file paths of the model
Paths == {"test.txt", "TEST.RS", "test.py", "Makefile"}

\* the collection identifiers ("filesystem hex id") of the model
FsIds == {"hex-1", "hex-2"}

\* Path::extension of the model's paths
Extension(path) ==
    CASE path = "test.txt" -> Some("txt")
      [] path = "TEST.RS"  -> Some("RS")
      [] path = "test.py"  -> Some("py")
      [] OTHER             -> None

\* str::to_lowercase of the extensions of the model's paths
ToLowercase(ext) == IF ext = "RS" THEN "rs" ELSE ext

\* SupportedLanguage::from_extension
from_extension(ext) ==
    LET e == ToLowercase(ext) IN
    CASE e = "rs"                 -> Some("Rust")
      [] e = "ts"                 -> Some("TypeScript")
      [] e = "tsx"                -> Some("Tsx")
      [] e \in {"js", "mjs", "cjs"} -> Some("JavaScript")
      [] e = "jsx"                -> Some("JavaScript")
      [] e = "py"                 -> Some("Python")
      [] e = "go"                 -> Some("Go")
      [] OTHER                    -> None

\* SupportedLanguage::top_level_kinds
top_level_kinds(language) ==
    CASE language = "Rust" ->
           {"function_item", "impl_item", "struct_item", "enum_item",
            "trait_item", "mod_item", "const_item", "static_item",
            "type_item", "macro_definition"}
      [] language \in {"TypeScript", "Tsx"} ->
           {"function_declaration", "class_declaration",
            "interface_declaration", "type_alias_declaration",
            "enum_declaration", "export_statement", "lexical_declaration",
            "variable_declaration"}
      [] language = "JavaScript" ->
           {"function_declaration", "class_declaration", "export_statement",
            "lexical_declaration", "variable_declaration"}
      [] language = "Python" ->
           {"function_definition", "class_definition", "decorated_definition"}
      [] language = "Go" ->
           {"function_declaration", "method_declaration", "type_declaration",
            "const_declaration", "var_declaration"}

\* SupportedLanguage::name
LanguageName(language) ==
    CASE language = "Rust"       -> "rust"
      [] language = "TypeScript" -> "typescript"
      [] language = "Tsx"        -> "tsx"
      [] language = "JavaScript" -> "javascript"
      [] language = "Python"     -> "python"
      [] language = "Go"         -> "go"

\* chunker.rs detect_supported_language
detect_supported_language(path) ==
    IF Extension(path) = None THEN None ELSE from_extension(Extension(path)[1])

\* chunker.rs detect_language: the language tag of line-based chunks
detect_language(path) ==
    IF Extension(path) = None THEN None
    ELSE LET e == ToLowercase(Extension(path)[1]) IN
         Some(CASE e = "rs" -> "rust"
                [] e \in {"ts", "tsx"} -> "typescript"
                [] e \in {"js", "jsx"} -> "javascript"
                [] e = "py" -> "python"
                [] e = "go" -> "go"
                [] OTHER -> e)

---------------------------------------------------------------------------
(* Syntax trees and semantic units (tree_sitter_parser.rs).                *)
(* A tree is the sequence of the root node's children; a node is a record  *)
(* kind, start_byte, end_byte (half-open), children.                       *)

Node(kind, start_byte, end_byte, children) ==
    [kind |-> kind, start_byte |-> start_byte, end_byte |-> end_byte,
     children |-> children]

\* struct SemanticUnit of a node (the optional name is not read by the chunker)
SemanticUnit(node, source) ==
    [kind       |-> node.kind,
     start_byte |-> node.start_byte,
     end_byte   |-> node.end_byte,
     start_line |-> Row(source, node.start_byte),
     end_line   |-> Row(source, node.end_byte),
     content    |-> Slice(source, node.start_byte, node.end_byte)]

\* collect_semantic_units, and its loop over a node's children
RECURSIVE collect_semantic_units(_, _, _, _)
RECURSIVE CollectChildren(_, _, _, _)
\* mutant of collect_semantic_units: declarations inside a declaration are
\* collected too
collect_semantic_units_Recursing(node, source, kinds, us) ==
    CollectChildren(node.children, source, kinds,
                    IF node.kind \in kinds
                    THEN Append(us, SemanticUnit(node, source))
                    ELSE us)

collect_semantic_units(node, source, kinds, us) ==
    IF node.kind \in kinds
    THEN Append(us, SemanticUnit(node, source))
    ELSE CollectChildren(node.children, source, kinds, us)

CollectChildren(nodes, source, kinds, us) ==
    IF nodes = <<>> THEN us
    ELSE CollectChildren(Tail(nodes), source, kinds,
                         collect_semantic_units(Head(nodes), source, kinds, us))

\* extract_semantic_units of a ParsedSource [tree, source, language]
extract_semantic_units(p) ==
    CollectChildren(p.tree, p.source, top_level_kinds(p.language), <<>>)

\* the node kinds the model's trees are built of: one declaration kind of the
\* language and one kind that is no declaration
NodeKinds(language) ==
    IF language = "Python" THEN {"function_definition", "comment"}
    ELSE {"function_item", "line_comment"}

\* the byte ranges [s, e) of a text of n bytes
Intervals(n) == {iv \in (0..n) \X (0..n) : iv[1] < iv[2]}

\* the trees of the model over a text of n bytes: no node, one node (a leaf,
\* or the parent of one leaf of the same range), or two leaves one after the
\* other
Trees(n, language) ==
    LET K == NodeKinds(language)
        Leaf(k, iv) == Node(k, iv[1], iv[2], <<>>)
    IN  {<<>>}
        \cup {<<Leaf(k, iv)>> : k \in K, iv \in Intervals(n)}
        \cup {<<Node(k, iv[1], iv[2], <<Leaf(k2, iv)>>)>> :
                 k \in K, k2 \in K, iv \in Intervals(n)}
        \cup {<<Leaf(k, p[1]), Leaf(k2, p[2])>> :
                 k \in K, k2 \in K,
                 p \in {q \in Intervals(n) \X Intervals(n) : q[2][1] >= q[1][2]}}

\* the nodes of depth at most `depth` inside the byte range [lo, hi), and the
\* sequences of at most two such nodes one after the other: what a node's
\* children can be in a syntax tree (children lie inside their parent, in
\* source order, without overlap)
RECURSIVE NodesIn(_, _, _, _)
RECURSIVE Forests(_, _, _, _)
NodesIn(lo, hi, depth, K) ==
    UNION {{Node(k, iv[1], iv[2], c) :
               k \in K, c \in Forests(iv[1], iv[2], depth - 1, K)} :
           iv \in {i \in (lo..hi) \X (lo..hi) : i[1] < i[2]}}

Forests(lo, hi, depth, K) ==
    IF depth = 0 THEN {<<>>}
    ELSE LET N == NodesIn(lo, hi, depth, K) IN
         {<<>>}
         \cup {<<n>> : n \in N}
         \cup {<<p[1], p[2]>> :
                  p \in {q \in N \X N : q[1].end_byte <= q[2].start_byte}}

\* the source the nested trees are over: lines of one character
TreeSource == [i \in 1..MaxTreeBytes |-> IF i % 2 = 1 THEN "a" ELSE NL]

\* the file of test_chunk_rust_with_tree_sitter with each declaration cut to
\* one line "a": a blank line before each of fn foo, fn bar, struct MyStruct
ThreeDecls == <<NL, "a", NL, NL, "a", NL, NL, "a", NL>>

\* its syntax tree: three declarations under the root
ThreeDeclsTree ==
    <<Node("function_item", 1, 2, <<>>),
      Node("function_item", 4, 5, <<>>),
      Node("struct_item", 7, 8, <<>>)>>

\* parse_source: None when the parser gives no tree, else the ParsedSource.
\* The tree is the parser library's; the model enumerates trees for short
\* sources and a tree without declarations for long ones.
ParseOutcomes(source, language) ==
    {None} \cup
    {Some([tree |-> t, source |-> source, language |-> language]) :
        t \in IF source = ThreeDecls /\ language = "Rust"
              THEN {ThreeDeclsTree}
              ELSE IF Len(source) <= MaxParsedLen
              THEN Trees(Len(source), language)
              ELSE {<<>>}}

---------------------------------------------------------------------------
(* Chunk segmentation (chunker.rs).                                        *)

\* IndexerConfig (the three fields the chunker reads)
Config(max, min, overlap) ==
    [max_chunk_lines |-> max, min_chunk_lines |-> min, overlap_lines |-> overlap]

\* IndexerConfig::default
DefaultConfig == Config(50, 5, 10)

\* struct CodeChunk
CodeChunk(id, fs, path, start_line, end_line, text, language) ==
    [id |-> id, filesystem_hex_id |-> fs, file_path |-> path,
     start_line |-> start_line, end_line |-> end_line,
     content |-> text, language |-> language]

\* mutant of WindowStep: the step may be zero
WindowStep_NoFloor(cfg) == SaturatingSub(cfg.max_chunk_lines, cfg.overlap_lines)

\* mutant of WindowStep: the overlap is forgotten
WindowStep_NoOverlap(cfg) == Max(cfg.max_chunk_lines, 1)

\* let step = max_chunk_lines.saturating_sub(overlap_lines).max(1)
WindowStep(cfg) == Max(SaturatingSub(cfg.max_chunk_lines, cfg.overlap_lines), 1)

\* mutant of WindowEnd: the window is one line short
WindowEnd_OneShort(start, cfg, total) ==
    Min(start + cfg.max_chunk_lines - 1, total)

\* let end = (start + max_chunk_lines).min(total)
WindowEnd(start, cfg, total) == Min(start + cfg.max_chunk_lines, total)

\* mutant of WindowTooSmall: no window is dropped
WindowTooSmall_Never(start, end, cfg, cs) == FALSE

\* mutant of WindowTooSmall: the first window is dropped too
WindowTooSmall_AlsoFirst(start, end, cfg, cs) ==
    end - start < cfg.min_chunk_lines

\* if end - start < min_chunk_lines && !chunks.is_empty() { break; }
WindowTooSmall(start, end, cfg, cs) ==
    end - start < cfg.min_chunk_lines /\ cs # <<>>

\* the while loop of chunk_file_line_based, from `start` with `cs` emitted;
\* the k-th chunk of a call takes the identifier uuid + k
RECURSIVE LineWindows(_, _, _, _, _, _, _)
LineWindows(fs, path, lines, cfg, uuid, start, cs) ==
    IF ~(start < Len(lines)) THEN cs
    ELSE LET end == WindowEnd(start, cfg, Len(lines)) IN
         IF WindowTooSmall(start, end, cfg, cs) THEN cs
         ELSE LET pushed ==
                      Append(cs, CodeChunk(uuid + Len(cs), fs, path,
                                           start + 1, end,
                                           JoinLines(SubSeq(lines, start + 1, end)),
                                           detect_language(path)))
              IN  IF end >= Len(lines) THEN pushed
                  ELSE LineWindows(fs, path, lines, cfg, uuid,
                                   start + WindowStep(cfg), pushed)

\* mutant of chunk_file_line_based: the minimum applies to a small file too
chunk_file_line_based_MinFloor(fs, path, text, cfg, uuid) ==
    LET lines == Lines(text)
        total_lines == Len(lines)
    IN  IF total_lines = 0 \/ total_lines < cfg.min_chunk_lines THEN <<>>
        ELSE IF total_lines <= cfg.max_chunk_lines
        THEN <<CodeChunk(uuid, fs, path, 1, total_lines, text,
                         detect_language(path))>>
        ELSE LineWindows(fs, path, lines, cfg, uuid, 0, <<>>)

\* chunk_file_line_based
chunk_file_line_based(fs, path, text, cfg, uuid) ==
    LET lines == Lines(text)
        total_lines == Len(lines)
    IN  IF total_lines = 0 THEN <<>>
        ELSE IF total_lines <= cfg.max_chunk_lines
        THEN <<CodeChunk(uuid, fs, path, 1, total_lines, text,
                         detect_language(path))>>
        ELSE LineWindows(fs, path, lines, cfg, uuid, 0, <<>>)

\* mutant of UnitWindows: the line numbers are those inside the unit
UnitWindows_NoOffset(fs, path, unit, unit_lines, language, cfg, uuid, start, cs) ==
    LineWindows(fs, path, unit_lines, cfg, uuid, start, cs)

\* the while loop of chunk_file_tree_sitter over one large unit
RECURSIVE UnitWindows(_, _, _, _, _, _, _, _, _)
UnitWindows(fs, path, unit, unit_lines, language, cfg, uuid, start, cs) ==
    IF ~(start < Len(unit_lines)) THEN cs
    ELSE LET end == WindowEnd(start, cfg, Len(unit_lines)) IN
         IF WindowTooSmall(start, end, cfg, cs) THEN cs
         ELSE LET pushed ==
                      Append(cs, CodeChunk(uuid + Len(cs), fs, path,
                                           unit.start_line + start + 1,
                                           unit.start_line + end,
                                           JoinLines(SubSeq(unit_lines, start + 1, end)),
                                           Some(LanguageName(language))))
              IN  IF end >= Len(unit_lines) THEN pushed
                  ELSE UnitWindows(fs, path, unit, unit_lines, language, cfg,
                                   uuid, start + WindowStep(cfg), pushed)

\* mutant of UnitIsSmall: a unit of exactly max_chunk_lines lines is windowed
UnitIsSmall_Strict(unit, cfg) ==
    unit.end_line - unit.start_line + 1 < cfg.max_chunk_lines

\* if line_count <= config.max_chunk_lines (the unit becomes one chunk)
UnitIsSmall(unit, cfg) ==
    unit.end_line - unit.start_line + 1 <= cfg.max_chunk_lines

\* the body of `for unit in units` of chunk_file_tree_sitter
UnitChunks(fs, path, unit, language, cfg, uuid, cs) ==
    IF UnitIsSmall(unit, cfg)
    THEN Append(cs, CodeChunk(uuid + Len(cs), fs, path,
                              unit.start_line + 1, unit.end_line + 1,
                              unit.content, Some(LanguageName(language))))
    ELSE UnitWindows(fs, path, unit, Lines(unit.content), language, cfg,
                     uuid, 0, cs)

\* the loop `for unit in units`
RECURSIVE UnitLoop(_, _, _, _, _, _, _)
UnitLoop(fs, path, us, language, cfg, uuid, cs) ==
    IF us = <<>> THEN cs
    ELSE UnitLoop(fs, path, Tail(us), language, cfg, uuid,
                  UnitChunks(fs, path, Head(us), language, cfg, uuid, cs))

\* chunk_file_tree_sitter; `p` is what parse_source returned
chunk_file_tree_sitter(fs, path, language, cfg, p, uuid) ==
    IF p = None THEN None
    ELSE LET us == extract_semantic_units(p[1]) IN
         IF us = <<>> THEN None
         ELSE Some(UnitLoop(fs, path, us, language, cfg, uuid, <<>>))

\* whether chunk_file returns what the tree-sitter path produced
UsesTreeSitter(path, text, cfg, p) ==
    /\ text # <<>>
    /\ detect_supported_language(path) # None
    /\ LET r == chunk_file_tree_sitter("hex-1", path,
                                       detect_supported_language(path)[1],
                                       cfg, p, 1)
       IN  r # None /\ r[1] # <<>>

\* mutant of chunk_file: a supported language never falls back to lines
chunk_file_NoFallback(fs, path, text, cfg, p, uuid) ==
    IF text = <<>> THEN <<>>
    ELSE IF detect_supported_language(path) # None
    THEN LET r == chunk_file_tree_sitter(fs, path,
                                         detect_supported_language(path)[1],
                                         cfg, p, uuid)
         IN  IF r = None THEN <<>> ELSE r[1]
    ELSE chunk_file_line_based(fs, path, text, cfg, uuid)

\* chunk_file; `p` is what parse_source returns when it is called
chunk_file(fs, path, text, cfg, p, uuid) ==
    IF text = <<>> THEN <<>>
    ELSE IF UsesTreeSitter(path, text, cfg, p)
    THEN chunk_file_tree_sitter(fs, path, detect_supported_language(path)[1],
                                cfg, p, uuid)[1]
    ELSE chunk_file_line_based(fs, path, text, cfg, uuid)

---------------------------------------------------------------------------
(* Vector store (store.rs): two tables keyed by chunk id.                  *)

\* Result::Ok and Result::Err
Ok(v) == [ok |-> TRUE, value |-> v]
Err(e) == [ok |-> FALSE, error |-> e]

Restrict(f, S) == [x \in S |-> f[x]]

\* the embeddings of the model: vectors of the store's dimension
Vectors == [1..EmbeddingDim -> {0, 1}]

\* an embedding of another dimension than the store's
WrongDimVector == [i \in 1..(EmbeddingDim + 1) |-> 0]

\* vec0's distance of two vectors of the same dimension (squared L2, which
\* orders as L2 does)
RECURSIVE SquaredDistance(_, _, _)
SquaredDistance(a, b, n) ==
    IF n = 0 THEN 0
    ELSE (a[n] - b[n]) * (a[n] - b[n]) + SquaredDistance(a, b, n - 1)

Distance(a, b) == SquaredDistance(a, b, Len(a))

\* mutant of InsertChunkRow: a row that exists keeps its fields
InsertChunkRow_KeepsOld(cc, chunk) ==
    [id \in DOMAIN cc \cup {chunk.id} |-> IF id \in DOMAIN cc THEN cc[id] ELSE chunk]

\* INSERT OR REPLACE INTO code_chunks (...) VALUES (chunk)
InsertChunkRow(cc, chunk) ==
    [id \in DOMAIN cc \cup {chunk.id} |-> IF id = chunk.id THEN chunk ELSE cc[id]]

\* INSERT OR REPLACE INTO chunk_embeddings (chunk_id, embedding)
InsertEmbeddingRow(ce, id, embedding) ==
    [i \in DOMAIN ce \cup {id} |-> IF i = id THEN embedding ELSE ce[i]]

\* whether vec0 accepts the vector for its float[dim] column
VectorAccepted(embedding) == Len(embedding) = EmbeddingDim

\* SELECT id FROM code_chunks WHERE filesystem_hex_id = ?1 AND file_path = ?2
FileChunkIds(cc, fs, path) ==
    {id \in DOMAIN cc : cc[id].filesystem_hex_id = fs /\ cc[id].file_path = path}

\* SELECT id FROM code_chunks WHERE filesystem_hex_id = ?1
FilesystemChunkIds(cc, fs) ==
    {id \in DOMAIN cc : cc[id].filesystem_hex_id = fs}

\* DELETE FROM chunk_embeddings WHERE chunk_id = ?1, for each id of `ids`
DeleteEmbeddings(ce, ids) == Restrict(ce, DOMAIN ce \ ids)

\* mutant of DeleteFileChunks: the path is left out of the WHERE clause
DeleteFileChunks_AnyPath(cc, fs, path) ==
    Restrict(cc, {id \in DOMAIN cc : cc[id].filesystem_hex_id # fs})

\* DELETE FROM code_chunks WHERE filesystem_hex_id = ?1 AND file_path = ?2
DeleteFileChunks(cc, fs, path) == Restrict(cc, DOMAIN cc \ FileChunkIds(cc, fs, path))

\* DELETE FROM code_chunks WHERE filesystem_hex_id = ?1
DeleteFilesystemChunks(cc, fs) == Restrict(cc, DOMAIN cc \ FilesystemChunkIds(cc, fs))

\* WHERE e.embedding MATCH ?1 AND k = ?2: the sets of rows vec0 may return, the
\* k vectors of the whole table nearest to the query (any choice among ties)
KnnSets(ce, query, k) ==
    {T \in SUBSET DOMAIN ce :
        /\ Cardinality(T) = Min(k, Cardinality(DOMAIN ce))
        /\ \A i \in T, j \in DOMAIN ce \ T :
              Distance(ce[i], query) <= Distance(ce[j], query)}

\* mutant of FsFilter: the collection filter is left out of the query
FsFilter_Ignored(chunk, fs_ids) == TRUE

\* the filter on the joined row: 1=1, or c.filesystem_hex_id IN (...)
FsFilter(chunk, fs_ids) ==
    fs_ids = {} \/ chunk.filesystem_hex_id \in fs_ids

\* INNER JOIN code_chunks c ON e.chunk_id = c.id ... AND {fs_filter}
JoinedIds(cc, T, fs_ids) ==
    {id \in T \cap DOMAIN cc : FsFilter(cc[id], fs_ids)}

\* ORDER BY e.distance: the orders of the joined rows, ties in any order
OrderedByDistance(cc, ce, query, ids) ==
    {r \in [1..Cardinality(ids) -> ids] :
        /\ \A i, j \in DOMAIN r : i # j => r[i] # r[j]
        /\ \A i, j \in DOMAIN r :
              i < j => Distance(ce[r[i]], query) <= Distance(ce[r[j]], query)}

\* struct SearchResult
SearchResult(chunk, distance) == [chunk |-> chunk, distance |-> distance]

\* the result sequences the query of VectorStore::search may give
SearchRows(cc, ce, query, fs_ids, limit) ==
    UNION {
      {[i \in DOMAIN r |-> SearchResult(cc[r[i]], Distance(ce[r[i]], query))] :
          r \in OrderedByDistance(cc, ce, query, JoinedIds(cc, T, fs_ids))} :
      T \in KnnSets(ce, query, limit)}

\* the outcome of a store call: the two tables after it and what it returned
Outcome(cc, ce, result) == [cc |-> cc, ce |-> ce, result |-> result]

\* VectorStore::insert.  `fault` names the statement that hits a database
\* error: "none", "chunk_row" (the first execute) or "embedding_row" (the
\* second); vec0 also refuses a vector of another dimension than its column's.
StoreInsert(c, cc, ce, chunk, embedding, fault) ==
    IF ~c THEN Outcome(cc, ce, Err("NotInitialized"))
    ELSE IF fault = "chunk_row" THEN Outcome(cc, ce, Err("Database"))
    ELSE IF fault = "embedding_row" \/ ~VectorAccepted(embedding)
    THEN Outcome(InsertChunkRow(cc, chunk), ce, Err("Database"))
    ELSE Outcome(InsertChunkRow(cc, chunk),
                 InsertEmbeddingRow(ce, chunk.id, embedding), Ok(<<>>))

\* the body shared by remove_file and clear_filesystem: `ids` are the chunk
\* ids the SELECT matches and `rest` the metadata table without them.
\* `fault`: "none"; "select" (prepare or query_map fails); "row" (reading a
\* row fails, which filter_map(|r| r.ok()) drops: only the ids `part` are
\* collected); "delete_embedding" (a DELETE of the loop fails after those of
\* `part` were done); "delete_chunks" (the final DELETE fails).
StoreDelete(c, cc, ce, ids, rest, fault, part) ==
    IF ~c THEN Outcome(cc, ce, Err("NotInitialized"))
    ELSE IF fault = "select" THEN Outcome(cc, ce, Err("Database"))
    ELSE IF fault = "row"
    THEN Outcome(rest, DeleteEmbeddings(ce, part), Ok(Cardinality(ids)))
    ELSE IF fault = "delete_embedding"
    THEN Outcome(cc, DeleteEmbeddings(ce, part), Err("Database"))
    ELSE IF fault = "delete_chunks"
    THEN Outcome(cc, DeleteEmbeddings(ce, ids), Err("Database"))
    ELSE Outcome(rest, DeleteEmbeddings(ce, ids), Ok(Cardinality(ids)))

\* mutant of StoreRemoveFile: nothing is deleted
StoreRemoveFile_KeepsRows(c, cc, ce, fs, path, fault, part) ==
    IF ~c THEN Outcome(cc, ce, Err("NotInitialized"))
    ELSE Outcome(cc, ce, Ok(0))

\* VectorStore::remove_file
StoreRemoveFile(c, cc, ce, fs, path, fault, part) ==
    StoreDelete(c, cc, ce, FileChunkIds(cc, fs, path),
                DeleteFileChunks(cc, fs, path), fault, part)

\* VectorStore::clear_filesystem
StoreClearFilesystem(c, cc, ce, fs, fault, part) ==
    StoreDelete(c, cc, ce, FilesystemChunkIds(cc, fs),
                DeleteFilesystemChunks(cc, fs), fault, part)

\* the faults of a delete over the ids `ids`, each with the ids handled before
\* the fault: a row or a DELETE of the loop can fail only if there is one
DeleteFaults(ids) ==
    {<<f, {}>> : f \in {"none", "select", "delete_chunks"}}
    \cup {<<f, part>> : f \in {"row", "delete_embedding"},
                       part \in (SUBSET ids) \ {ids}}

\* VectorStore::search: the results it may return
StoreSearch(c, cc, ce, query, fs_ids, limit, fault) ==
    IF ~c THEN {Err("NotInitialized")}
    ELSE IF fault = "query" THEN {Err("Database")}
    ELSE {Ok(r) : r \in SearchRows(cc, ce, query, fs_ids, limit)}

\* VectorStore::is_initialized
StoreIsInitialized(c) == c

\* mutant of StoreGetChunkCount: the count is taken before the connection is
\* looked at
StoreGetChunkCount_Unguarded(c, cc, fs, fault) ==
    IF fault = "query" THEN Err("Database")
    ELSE Ok(Cardinality(FilesystemChunkIds(cc, fs)))

\* VectorStore::get_chunk_count: SELECT COUNT(*) ... WHERE filesystem_hex_id
\* = ?1; `fault` is "none" or "query" (query_row fails)
StoreGetChunkCount(c, cc, fs, fault) ==
    IF ~c THEN Err("NotInitialized")
    ELSE IF fault = "query" THEN Err("Database")
    ELSE Ok(Cardinality(FilesystemChunkIds(cc, fs)))

\* the orders a set of rows can come back in
Orders(S) ==
    {r \in [1..Cardinality(S) -> S] : \A i, j \in DOMAIN r : i # j => r[i] # r[j]}

\* mutant of IndexedPaths: the SELECT has no DISTINCT
IndexedPaths_PerChunk(cc, fs) ==
    {<<cc[id].file_path, id>> : id \in FilesystemChunkIds(cc, fs)}

\* SELECT DISTINCT file_path FROM code_chunks WHERE filesystem_hex_id = ?1:
\* one row per path (a row is the path and, DISTINCT, nothing else)
IndexedPaths(cc, fs) ==
    {<<cc[id].file_path, 0>> : id \in FilesystemChunkIds(cc, fs)}

\* VectorStore::get_indexed_files: the results it may return.  `fault`:
\* "none"; "select" (prepare or query_map fails); "row" (rows that fail to be
\* read are dropped by filter_map(|r| r.ok()): only the rows `kept` come back)
StoreGetIndexedFiles(c, cc, fs, fault, kept) ==
    IF ~c THEN {Err("NotInitialized")}
    ELSE IF fault = "select" THEN {Err("Database")}
    ELSE LET rows == IF fault = "row" THEN kept ELSE IndexedPaths(cc, fs)
         IN  {Ok([i \in DOMAIN r |-> r[i][1]]) : r \in Orders(rows)}

---------------------------------------------------------------------------
(* Embedder (embedder.rs): a lazily loaded model behind a mutex.           *)

\* mutant of EmbedderInitialize: a model is loaded whether one is there or not
EmbedderInitialize_Reloads(m, outcome) ==
    IF outcome = "fail"
    THEN [model |-> m, loaded |-> FALSE, result |-> Err("InitError")]
    ELSE [model |-> m + 1, loaded |-> TRUE, result |-> Ok(<<>>)]

\* Embedder::initialize.  `outcome` is what TextEmbedding::try_new does when
\* it is called: "load" or "fail"
EmbedderInitialize(m, outcome) ==
    IF m # 0 THEN [model |-> m, loaded |-> FALSE, result |-> Ok(<<>>)]
    ELSE IF outcome = "fail"
    THEN [model |-> m, loaded |-> FALSE, result |-> Err("InitError")]
    ELSE [model |-> m + 1, loaded |-> TRUE, result |-> Ok(<<>>)]

\* Embedder::is_initialized
EmbedderIsInitialized(m) == m # 0

\* model.embed(text_refs, None) of a model that embeds each text on its own:
\* one vector per text, in order
ProviderEmbed(f, texts) == [i \in DOMAIN texts |-> f[texts[i]]]

\* mutant of EmbedderEmbed: the model is used without looking whether it is
\* loaded
EmbedderEmbed_Unguarded(m, f, texts, fault) ==
    IF fault = "embed" THEN Err("EmbedError")
    ELSE Ok(ProviderEmbed(f, texts))

\* Embedder::embed.  `fault` is "none" or "embed" (the model's embed fails)
EmbedderEmbed(m, f, texts, fault) ==
    IF m = 0 THEN Err("NotInitialized")
    ELSE IF fault = "embed" THEN Err("EmbedError")
    ELSE Ok(ProviderEmbed(f, texts))

\* Embedder::embed_one
EmbedderEmbedOne(m, f, text, fault) ==
    LET r == EmbedderEmbed(m, f, <<text>>, fault) IN
    IF ~r.ok THEN r
    ELSE IF r.value = <<>> THEN Err("EmbedError")
    ELSE Ok(r.value[1])

\* mutant of Batch: every batch starts one text early
Batch_Overlapping(texts, batch_size, batch_idx) ==
    SubSeq(texts, Max(1, batch_idx * batch_size),
           Min((batch_idx + 1) * batch_size, Len(texts)))

\* texts.chunks(batch_size).nth(batch_idx), batch_size >= 1
Batch(texts, batch_size, batch_idx) ==
    SubSeq(texts, batch_idx * batch_size + 1,
           Min((batch_idx + 1) * batch_size, Len(texts)))

\* mutant of Processed: the count is not capped by the total
Processed_Uncapped(batch_size, batch_idx, total) == (batch_idx + 1) * batch_size

\* line 120: ((batch_idx + 1) * batch_size).min(total)
Processed(batch_size, batch_idx, total) ==
    Min((batch_idx + 1) * batch_size, total)

\* lines 116-122: the loop of embed_with_progress from batch `batch_idx` on,
\* with the embeddings collected and the on_progress calls made so far.
\* `fail_at` is the index of the batch whose embed fails (none fails if there
\* is no such batch).  The result and the calls of on_progress, in order.
RECURSIVE EwpLoop(_, _, _, _, _, _, _, _)
EwpLoop(m, f, texts, batch_size, batch_idx, fail_at, all_embeddings, calls) ==
    IF batch_idx * batch_size >= Len(texts)
    THEN [result |-> Ok(all_embeddings), calls |-> calls]
    ELSE LET r == EmbedderEmbed(m, f, Batch(texts, batch_size, batch_idx),
                                IF batch_idx = fail_at THEN "embed" ELSE "none")
         IN  IF ~r.ok THEN [result |-> r, calls |-> calls]
             ELSE EwpLoop(m, f, texts, batch_size, batch_idx + 1, fail_at,
                          all_embeddings \o r.value,
                          Append(calls, <<Processed(batch_size, batch_idx,
                                                    Len(texts)),
                                          Len(texts)>>))

\* Embedder::embed_with_progress, batch_size >= 1 (chunks(0) panics)
EmbedderEmbedWithProgress(m, f, texts, batch_size, fail_at) ==
    EwpLoop(m, f, texts, batch_size, 0, fail_at, <<>>, <<>>)

---------------------------------------------------------------------------
(* The store as a state machine: calls of the VectorStore API in any       *)
(* order, each under the connection's mutex.                               *)

\* the texts handed to the embedder
EmbedTexts == {<<>>, <<"a">>}

\* the state of the embedder before it is used (Embedder::new)
EmbedderUnused ==
    /\ model = 0
    /\ provider = [t \in EmbedTexts |-> [i \in 1..EmbeddingDim |-> 0]]
    /\ eret = [op |-> "none"]

\* the indexing command when no call of it has been made.  Of a directory
\* pass it holds the kind of the requested path (target), the files the walk
\* yields (entries) and those still to come (rest), the two counters of the
\* code, and what the pass did: the inserts that returned Ok (inserted), the
\* files whose inserts all returned Ok (complete), whether an insert of the
\* current file failed (failed) and the failures so far (failures)
IdleTask ==
    [cmd |-> "index_file", pc |-> "idle", fs |-> "hex-1", path |-> "test.txt",
     read |-> Ok(<<>>), chunks |-> <<>>, embeddings |-> <<>>, i |-> 1,
     removed |-> FALSE, old |-> {}, result |-> Ok(0),
     target |-> "dir", entries |-> <<>>, rest |-> <<>>,
     files_processed |-> 0, chunks_indexed |-> 0,
     inserted |-> 0, complete |-> 0, failed |-> FALSE, failures |-> 0]

\* the state of the store and of the index-file command before either is used
StoreUnused ==
    /\ conn = FALSE
    /\ code_chunks = <<>>
    /\ chunk_embeddings = <<>>
    /\ ret = [op |-> "none"]
    /\ task = IdleTask
    /\ peer = IdleTask
    /\ next_uuid = 1

\* the state of the chunker before it is used
ChunkerUnused ==
    /\ content = <<>>
    /\ file_path = "test.txt"
    /\ config = DefaultConfig
    /\ cpc = "input"
    /\ parsed = None
    /\ units = <<>>
    /\ chunks = <<>>
    /\ loop_start = 0

\* the file paths chunks are stored for
StorePaths == {"test.txt", "TEST.RS"}

\* the files chunks are stored for: two of one collection, one of another
StoreFiles ==
    {<<"hex-1", "test.txt">>, <<"hex-1", "TEST.RS">>, <<"hex-2", "test.txt">>}

\* the chunks handed to insert directly
StoreChunks ==
    {CodeChunk(id, f[1], f[2], 1, 1, <<"a">>, detect_language(f[2])) :
        id \in 1..MaxChunkId, f \in StoreFiles}

\* the arguments of an insert besides the chunk: an embedding, of the store's
\* dimension or not, and the statement that fails (the embedding plays no
\* part in a call whose statement fails)
InsertInputs ==
    {<<e, "none">> : e \in Vectors \cup {WrongDimVector}}
    \cup {<<[i \in 1..EmbeddingDim |-> 0], f>> : f \in {"chunk_row", "embedding_row"}}

\* VectorStore::initialize: opens the database and creates the tables if
\* they do not exist; the rows on disk stay
Initialize ==
    /\ \E fault \in {"none", "open"} :
          IF fault = "open"
          THEN /\ conn' = conn
               /\ ret' = [op |-> "initialize", result |-> Err("Database")]
          ELSE /\ conn' = TRUE
               /\ ret' = [op |-> "initialize", result |-> Ok(<<>>)]
    /\ UNCHANGED <<code_chunks, chunk_embeddings, task, peer, next_uuid>>
    /\ UNCHANGED <<chunkerVars, embedderVars>>

Insert ==
    /\ \E chunk \in StoreChunks, in \in InsertInputs :
          LET o == StoreInsert(conn, code_chunks, chunk_embeddings,
                               chunk, in[1], in[2])
          IN  /\ code_chunks' = o.cc
              /\ chunk_embeddings' = o.ce
              /\ ret' = [op |-> "insert", chunk |-> chunk,
                         embedding |-> in[1], result |-> o.result]
    /\ UNCHANGED <<conn, task, peer, next_uuid>>
    /\ UNCHANGED <<chunkerVars, embedderVars>>

RemoveFile ==
    /\ \E fs \in FsIds, path \in StorePaths :
       \E f \in DeleteFaults(FileChunkIds(code_chunks, fs, path)) :
          LET o == StoreRemoveFile(conn, code_chunks, chunk_embeddings,
                                   fs, path, f[1], f[2])
          IN  /\ code_chunks' = o.cc
              /\ chunk_embeddings' = o.ce
              /\ ret' = [op |-> "remove_file", fs |-> fs, path |-> path,
                         dropped |-> f[1] = "row", result |-> o.result]
    /\ UNCHANGED <<conn, task, peer, next_uuid>>
    /\ UNCHANGED <<chunkerVars, embedderVars>>

ClearFilesystem ==
    /\ \E fs \in FsIds :
       \E f \in DeleteFaults(FilesystemChunkIds(code_chunks, fs)) :
          LET o == StoreClearFilesystem(conn, code_chunks, chunk_embeddings,
                                        fs, f[1], f[2])
          IN  /\ code_chunks' = o.cc
              /\ chunk_embeddings' = o.ce
              /\ ret' = [op |-> "clear_filesystem", fs |-> fs,
                         dropped |-> f[1] = "row", result |-> o.result]
    /\ UNCHANGED <<conn, task, peer, next_uuid>>
    /\ UNCHANGED <<chunkerVars, embedderVars>>

IsInitialized ==
    /\ ret' = [op |-> "is_initialized", result |-> StoreIsInitialized(conn)]
    /\ UNCHANGED <<conn, code_chunks, chunk_embeddings, task, peer, next_uuid>>
    /\ UNCHANGED <<chunkerVars, embedderVars>>

GetChunkCount ==
    /\ \E fs \in FsIds, fault \in {"none", "query"} :
          ret' = [op |-> "get_chunk_count", fs |-> fs,
                  result |-> StoreGetChunkCount(conn, code_chunks, fs, fault)]
    /\ UNCHANGED <<conn, code_chunks, chunk_embeddings, task, peer, next_uuid>>
    /\ UNCHANGED <<chunkerVars, embedderVars>>

\* the faults of get_indexed_files, each with the rows that are read
IndexedFilesFaults(rows) ==
    {<<f, rows>> : f \in {"none", "select"}}
    \cup {<<"row", kept>> : kept \in (SUBSET rows) \ {rows}}

GetIndexedFiles ==
    /\ \E fs \in FsIds :
       \E f \in IndexedFilesFaults(IndexedPaths(code_chunks, fs)) :
       \E r \in StoreGetIndexedFiles(conn, code_chunks, fs, f[1], f[2]) :
          ret' = [op |-> "get_indexed_files", fs |-> fs,
                  dropped |-> f[1] = "row", result |-> r]
    /\ UNCHANGED <<conn, code_chunks, chunk_embeddings, task, peer, next_uuid>>
    /\ UNCHANGED <<chunkerVars, embedderVars>>

InitStore ==
    /\ ChunkerUnused
    /\ EmbedderUnused
    /\ StoreUnused

NextStore ==
    \/ Initialize
    \/ Insert
    \/ RemoveFile
    \/ ClearFilesystem

SpecStore == InitStore /\ [][NextStore]_vars

---------------------------------------------------------------------------
(* search as a query over the tables: it reads them under the mutex and    *)
(* writes nothing, so one call is made from each content of the tables.    *)

\* the tables with rows for some of the ids `ids`
Tables(ids, rows) == UNION {[S -> rows] : S \in SUBSET ids}

\* the contents of the two tables the store operations can leave behind: for
\* every id a metadata row or none, a vector or none
InitSearch ==
    /\ ChunkerUnused
    /\ EmbedderUnused
    /\ conn \in BOOLEAN
    /\ code_chunks \in {cc \in Tables(1..MaxChunkId, StoreChunks) :
                           \A id \in DOMAIN cc : cc[id].id = id}
    /\ chunk_embeddings \in Tables(1..MaxChunkId, Vectors)
    /\ ret = [op |-> "none"]
    /\ task = IdleTask
    /\ peer = IdleTask
    /\ next_uuid = 1

Search ==
    /\ ret.op = "none"
    /\ \E query \in Vectors, fs_ids \in SUBSET FsIds, limit \in 1..MaxLimit,
          fault \in {"none", "query"} :
       \E r \in StoreSearch(conn, code_chunks, chunk_embeddings,
                            query, fs_ids, limit, fault) :
          ret' = [op |-> "search", query |-> query, fs_ids |-> fs_ids,
                  limit |-> limit, result |-> r]
    /\ UNCHANGED <<conn, code_chunks, chunk_embeddings, task, peer, next_uuid>>
    /\ UNCHANGED <<chunkerVars, embedderVars>>

NextSearch == Search

SpecSearch == InitSearch /\ [][NextSearch]_vars

---------------------------------------------------------------------------
(* One call of any method of the store, made on any content of the         *)
(* database and with the connection open or not.                           *)

InitCall == InitSearch

\* no call has been made yet
NoCallYet == ret.op = "none"

NextCall ==
    \/ NoCallYet /\ Initialize
    \/ NoCallYet /\ IsInitialized
    \/ NoCallYet /\ Insert
    \/ NoCallYet /\ RemoveFile
    \/ NoCallYet /\ ClearFilesystem
    \/ NoCallYet /\ Search
    \/ NoCallYet /\ GetChunkCount
    \/ NoCallYet /\ GetIndexedFiles

SpecCall == InitCall /\ [][NextCall]_vars

---------------------------------------------------------------------------
(* The chunker as a state machine: the inputs of one chunk_file call, then *)
(* the call.                                                               *)

\* 120 lines "a", the last one without a newline
Scenario120 == [i \in 1..239 |-> IF i % 2 = 1 THEN "a" ELSE NL]

Contents == Texts(MaxContentLen)

Configs ==
    {Config(max, min, overlap) :
        max \in 0..MaxCfg, min \in 0..MaxCfg, overlap \in 0..MaxCfg}
    \cup {DefaultConfig}

\* the configurations the 120-line content is chunked with
ScenarioConfigs == {DefaultConfig, Config(50, 45, 10), Config(50, 5, 0)}

InitChunk ==
    /\ \/ /\ content \in {Scenario120, ThreeDecls}
          /\ file_path \in {"test.txt", "TEST.RS"}
          /\ config \in ScenarioConfigs
       \/ /\ content \in Contents
          /\ file_path \in Paths
          /\ config \in Configs
    /\ cpc = "input"
    /\ parsed = None
    /\ units = <<>>
    /\ chunks = <<>>
    /\ loop_start = 0
    /\ StoreUnused
    /\ EmbedderUnused

\* what parse_source may return in chunk_file(path, text): it is called only
\* for non-empty content of a supported language
ParseCalls(path, text) ==
    IF text = <<>> \/ detect_supported_language(path) = None
    THEN {None}
    ELSE ParseOutcomes(text, detect_supported_language(path)[1])

\* one call chunk_file("hex-1", file_path, content, config)
ChunkFile ==
    /\ cpc = "input"
    /\ \E p \in ParseCalls(file_path, content) :
          /\ parsed' = p
          /\ units' = IF p = None THEN <<>> ELSE extract_semantic_units(p[1])
          /\ chunks' = chunk_file("hex-1", file_path, content, config, p, 1)
    /\ cpc' = "done"
    /\ UNCHANGED <<content, file_path, config, loop_start>>
    /\ UNCHANGED <<storeVars, embedderVars>>

NextChunk == ChunkFile

SpecChunk == InitChunk /\ [][NextChunk]_vars

---------------------------------------------------------------------------
(* Claims about chunk_file (checked under SpecChunk).                      *)

\* the number of lines of the content
LineCount == Len(Lines(content))

\* chunk_file chunked the content by the line-based path: the extension is
\* no supported language, or parsing failed, or no semantic unit was found
LineBasedCase ==
    \/ detect_supported_language(file_path) = None
    \/ parsed = None
    \/ units = <<>>

\* the line ranges of the chunks returned
Ranges == [i \in DOMAIN chunks |-> <<chunks[i].start_line, chunks[i].end_line>>]

OneChunkOverAllLines ==
    /\ Len(chunks) = 1
    /\ chunks[1].start_line = 1
    /\ chunks[1].end_line = LineCount

\* C1 as stated: non-empty content of N <= max_chunk_lines lines gives exactly
\* one chunk spanning lines 1..N, whatever the path or language.
C1_Original ==
    (cpc = "done" /\ content # <<>> /\ LineCount <= config.max_chunk_lines)
        => OneChunkOverAllLines

\* C1 amended: non-empty content of N <= max_chunk_lines lines that is chunked
\* by the line-based path (unsupported extension, parse failure or no semantic
\* unit) gives exactly one chunk, with start_line = 1 and end_line = N.
C1_SmallFileOneChunk ==
    (/\ cpc = "done"
     /\ content # <<>>
     /\ LineCount <= config.max_chunk_lines
     /\ LineBasedCase)
        => OneChunkOverAllLines

\* C1 witness: the 3-line file of test_chunk_small_file's shape under the
\* default configuration, chunked as one chunk of lines 1..3
C1_Witness ==
    /\ cpc = "done"
    /\ content = <<"a", NL, "a", NL, "a">>
    /\ file_path = "test.txt"
    /\ config = DefaultConfig
    /\ Ranges = <<<<1, 3>>>>

\* C2 as stated: line-based chunking of N > max_chunk_lines lines with
\* overlap_lines < max_chunk_lines covers every line 1..N, and each consecutive
\* pair of ranges shares exactly overlap_lines lines.
C2_CoverageAndOverlap ==
    (/\ cpc = "done"
     /\ LineBasedCase
     /\ LineCount > config.max_chunk_lines
     /\ config.overlap_lines < config.max_chunk_lines)
        => /\ \A l \in 1..LineCount :
                 \E i \in DOMAIN chunks :
                     chunks[i].start_line <= l /\ l <= chunks[i].end_line
           /\ \A i \in 1..(Len(chunks) - 1) :
                 chunks[i].end_line - chunks[i + 1].start_line + 1
                     = config.overlap_lines

\* the step of the sliding window, as the claim states it
ClaimedStep ==
    IF config.max_chunk_lines - config.overlap_lines >= 1
    THEN config.max_chunk_lines - config.overlap_lines
    ELSE 1

\* C3: in the line-based path with N > max_chunk_lines the i-th chunk
\* (i = 0, 1, ...) spans start_line = i*step + 1 to
\* end_line = min(i*step + max_chunk_lines, N), step = max(1, max - overlap);
\* 120 lines under max=50, overlap=10, min=5 give [1,50], [41,90], [81,120].
C3_WindowBoundaries ==
    (cpc = "done" /\ LineBasedCase /\ LineCount > config.max_chunk_lines)
        => /\ \A k \in DOMAIN chunks :
                 /\ chunks[k].start_line = (k - 1) * ClaimedStep + 1
                 /\ chunks[k].end_line =
                        Min((k - 1) * ClaimedStep + config.max_chunk_lines,
                            LineCount)
           /\ (content = Scenario120 /\ config = DefaultConfig)
                 => Ranges = <<<<1, 50>>, <<41, 90>>, <<81, 120>>>>

\* C3 witness: the 120-line file chunked under the default configuration
C3_Witness ==
    /\ cpc = "done"
    /\ content = Scenario120
    /\ file_path = "test.txt"
    /\ config = DefaultConfig
    /\ Len(chunks) = 3

\* C4: chunk_file returns the empty list exactly when the content is empty,
\* for every path and configuration.
C4_EmptyIffEmptyContent ==
    cpc = "done" => (chunks = <<>> <=> content = <<>>)

\* C4 witness: test_chunk_empty_file, empty content under a supported extension
C4_Witness ==
    /\ cpc = "done"
    /\ content = <<>>
    /\ file_path = "TEST.RS"
    /\ chunks = <<>>

\* the line count of a unit, and whether the claim calls the unit small
UnitLineCount(u) == u.end_line - u.start_line + 1
ClaimedSmall(u) == UnitLineCount(u) <= config.max_chunk_lines

\* the chunks chunk_file_tree_sitter has pushed once the first n units are done
PushedAfter(n) ==
    Len(UnitLoop("hex-1", file_path, SubSeq(units, 1, n),
                 detect_supported_language(file_path)[1], config, 1, <<>>))

\* C5: in unit-based chunking a unit of at most max_chunk_lines lines gives
\* exactly one chunk, at the unit's place in source order, whose 1-indexed line
\* range is the unit's 0-indexed range plus one and whose content is the unit's
\* text; units that are all small give one chunk each (three declarations: 3).
C5_SmallUnitOneChunk ==
    (cpc = "done" /\ ~LineBasedCase)
        => /\ \A i \in DOMAIN units :
                 ClaimedSmall(units[i]) =>
                     LET n == PushedAfter(i - 1) IN
                     /\ PushedAfter(i) = n + 1
                     /\ Len(chunks) >= n + 1
                     /\ chunks[n + 1].start_line = units[i].start_line + 1
                     /\ chunks[n + 1].end_line = units[i].end_line + 1
                     /\ chunks[n + 1].content = units[i].content
           /\ (\A i \in DOMAIN units : ClaimedSmall(units[i]))
                 => /\ Len(chunks) = Len(units)
                    /\ \A i \in DOMAIN units :
                          /\ chunks[i].start_line = units[i].start_line + 1
                          /\ chunks[i].end_line = units[i].end_line + 1
                          /\ chunks[i].content = units[i].content

\* C5 witness: two functions and one type declaration give three chunks
C5_Witness ==
    /\ cpc = "done"
    /\ content = ThreeDecls
    /\ config = DefaultConfig
    /\ Len(units) = 3
    /\ Ranges = <<<<2, 2>>, <<4, 4>>, <<6, 6>>>>

\* C6: for an unsupported extension, a failed parse or a parse without
\* semantic unit, chunk_file returns what chunk_file_line_based returns for
\* the same content and configuration.
C6_FallbackIsLineBased ==
    (cpc = "done" /\ LineBasedCase)
        => chunks = chunk_file_line_based("hex-1", file_path, content, config, 1)

\* C6 witness: a supported language whose parse gave a tree without any
\* declaration, chunked by lines
C6_Witness ==
    /\ cpc = "done"
    /\ file_path = "TEST.RS"
    /\ parsed # None
    /\ units = <<>>
    /\ Len(chunks) > 1

---------------------------------------------------------------------------
(* chunk_file step by step: one action per turn of its loops.  cpc is      *)
(* "units" at the head of `for unit in units` (units holds what the        *)
(* iterator has left), "unit_loop" in the while loop of the unit           *)
(* Head(units), "lines" in the while loop of chunk_file_line_based.        *)

\* one turn of a window loop over `lines`, with `offset` added to the line
\* numbers: the chunks and `start` after it, and whether the loop is left
LoopTurn(fs, path, lines, offset, language, cfg, uuid, st, cs) ==
    IF ~(st < Len(lines))
    THEN [chunks |-> cs, start |-> st, exit |-> TRUE]
    ELSE LET end == WindowEnd(st, cfg, Len(lines)) IN
         IF WindowTooSmall(st, end, cfg, cs)
         THEN [chunks |-> cs, start |-> st, exit |-> TRUE]
         ELSE LET pushed ==
                      Append(cs, CodeChunk(uuid + Len(cs), fs, path,
                                           offset + st + 1, offset + end,
                                           JoinLines(SubSeq(lines, st + 1, end)),
                                           language))
              IN  IF end >= Len(lines)
                  THEN [chunks |-> pushed, start |-> st, exit |-> TRUE]
                  ELSE [chunks |-> pushed, start |-> st + WindowStep(cfg),
                        exit |-> FALSE]

\* chunk_file_line_based up to its loop: the position reached and the chunks
LineBasedBegin(fs, path, text, cfg, uuid) ==
    LET total_lines == Len(Lines(text)) IN
    IF total_lines = 0 THEN [cpc |-> "done", chunks |-> <<>>]
    ELSE IF total_lines <= cfg.max_chunk_lines
    THEN [cpc |-> "done",
          chunks |-> <<CodeChunk(uuid, fs, path, 1, total_lines, text,
                                 detect_language(path))>>]
    ELSE [cpc |-> "lines", chunks |-> <<>>]

\* chunk_file is called: empty content returns; a supported language is
\* parsed and, with units, chunked by units; else the line-based path starts
ChunkBegin ==
    /\ cpc = "input"
    /\ \E p \in ParseCalls(file_path, content) :
          LET us == IF p = None THEN <<>> ELSE extract_semantic_units(p[1])
              lb == LineBasedBegin("hex-1", file_path, content, config, 1)
          IN  /\ parsed' = p
              /\ IF content = <<>>
                 THEN cpc' = "done" /\ units' = <<>> /\ chunks' = <<>>
                 ELSE IF us # <<>>
                 THEN cpc' = "units" /\ units' = us /\ chunks' = <<>>
                 ELSE cpc' = lb.cpc /\ units' = <<>> /\ chunks' = lb.chunks
    /\ loop_start' = 0
    /\ UNCHANGED <<content, file_path, config>>
    /\ UNCHANGED <<storeVars, embedderVars>>

\* the head of `for unit in units`: a small unit is pushed, a large one
\* enters its while loop; after the last unit the chunks are returned, or,
\* when there is none, chunk_file falls back to the line-based path
UnitNext ==
    /\ cpc = "units"
    /\ IF units = <<>>
       THEN LET lb == LineBasedBegin("hex-1", file_path, content, config, 1) IN
            /\ cpc' = IF chunks # <<>> THEN "done" ELSE lb.cpc
            /\ chunks' = IF chunks # <<>> THEN chunks ELSE lb.chunks
            /\ units' = units
       ELSE LET unit == Head(units) IN
            IF UnitIsSmall(unit, config)
            THEN /\ chunks' = Append(chunks,
                                     CodeChunk(1 + Len(chunks), "hex-1", file_path,
                                               unit.start_line + 1,
                                               unit.end_line + 1, unit.content,
                                               Some(LanguageName(parsed[1].language))))
                 /\ units' = Tail(units)
                 /\ cpc' = "units"
            ELSE /\ cpc' = "unit_loop"
                 /\ UNCHANGED <<chunks, units>>
    /\ loop_start' = 0
    /\ UNCHANGED <<content, file_path, config, parsed>>
    /\ UNCHANGED <<storeVars, embedderVars>>

\* one turn of the while loop over the lines of the unit Head(units)
UnitTurn ==
    /\ cpc = "unit_loop"
    /\ LET unit == Head(units)
           r == LoopTurn("hex-1", file_path, Lines(unit.content),
                         unit.start_line,
                         Some(LanguageName(parsed[1].language)), config, 1,
                         loop_start, chunks)
       IN  /\ chunks' = r.chunks
           /\ loop_start' = r.start
           /\ cpc' = IF r.exit THEN "units" ELSE "unit_loop"
           /\ units' = IF r.exit THEN Tail(units) ELSE units
    /\ UNCHANGED <<content, file_path, config, parsed>>
    /\ UNCHANGED <<storeVars, embedderVars>>

\* one turn of the while loop of chunk_file_line_based
LineTurn ==
    /\ cpc = "lines"
    /\ LET r == LoopTurn("hex-1", file_path, Lines(content), 0,
                         detect_language(file_path), config, 1, loop_start,
                         chunks)
       IN  /\ chunks' = r.chunks
           /\ loop_start' = r.start
           /\ cpc' = IF r.exit THEN "done" ELSE "lines"
    /\ UNCHANGED <<content, file_path, config, parsed, units>>
    /\ UNCHANGED <<storeVars, embedderVars>>

\* the contents the loops are stepped through: the short ones, whose syntax
\* trees are enumerated, and the longest made of empty lines only
LoopContents ==
    Texts(MaxParsedLen - 1) \cup {[i \in 1..MaxContentLen |-> NL]}

InitLoop ==
    /\ content \in LoopContents
    /\ file_path \in {"test.txt", "TEST.RS"}
    /\ config \in Configs
    /\ cpc = "input"
    /\ parsed = None
    /\ units = <<>>
    /\ chunks = <<>>
    /\ loop_start = 0
    /\ StoreUnused
    /\ EmbedderUnused

NextLoop ==
    \/ ChunkBegin
    \/ UnitNext
    \/ UnitTurn
    \/ LineTurn

SpecLoop == InitLoop /\ [][NextLoop]_vars

\* chunk_file runs on its caller's thread: a step that can be taken is taken
SpecLoopFair == SpecLoop /\ WF_vars(NextLoop)

---------------------------------------------------------------------------
(* extract_semantic_units applied to nested syntax trees.                  *)

InitExtract ==
    /\ content = TreeSource
    /\ file_path \in {"TEST.RS", "test.py"}
    /\ config = DefaultConfig
    /\ cpc = "input"
    /\ \E t \in Forests(0, MaxTreeBytes, MaxTreeDepth,
                         NodeKinds(detect_supported_language(file_path)[1])) :
          parsed = Some([tree |-> t, source |-> content,
                         language |-> detect_supported_language(file_path)[1]])
    /\ units = <<>>
    /\ chunks = <<>>
    /\ loop_start = 0
    /\ StoreUnused
    /\ EmbedderUnused

\* one call extract_semantic_units(&parsed)
Extract ==
    /\ cpc = "input"
    /\ units' = extract_semantic_units(parsed[1])
    /\ cpc' = "done"
    /\ UNCHANGED <<content, file_path, config, parsed, chunks, loop_start>>
    /\ UNCHANGED <<storeVars, embedderVars>>

NextExtract == Extract

SpecExtract == InitExtract /\ [][NextExtract]_vars

---------------------------------------------------------------------------
(* The embedder as a state machine: calls of its methods in any order.     *)
(* embed_with_progress takes the mutex once per batch; the only method     *)
(* that writes the model is initialize, and only when there is none, in    *)
(* which case the first batch has failed: the call is one step.            *)

\* the lists of texts handed to embed and embed_with_progress
TextLists == UNION {[1..n -> EmbedTexts] : n \in 0..MaxTexts}

EmbedderInit ==
    /\ \E outcome \in {"load", "fail"}, f \in [EmbedTexts -> Vectors] :
          LET o == EmbedderInitialize(model, outcome) IN
          /\ model' = o.model
          /\ provider' = IF o.loaded THEN f ELSE provider
          /\ eret' = [op |-> "initialize", loaded |-> o.loaded,
                       result |-> o.result]
    /\ UNCHANGED <<chunkerVars, storeVars>>

EmbedderIsInit ==
    /\ eret' = [op |-> "is_initialized", result |-> EmbedderIsInitialized(model)]
    /\ UNCHANGED <<model, provider>>
    /\ UNCHANGED <<chunkerVars, storeVars>>

Embed ==
    /\ \E texts \in TextLists, fault \in {"none", "embed"} :
          eret' = [op |-> "embed", texts |-> texts,
                   result |-> EmbedderEmbed(model, provider, texts, fault)]
    /\ UNCHANGED <<model, provider>>
    /\ UNCHANGED <<chunkerVars, storeVars>>

EmbedOne ==
    /\ \E text \in EmbedTexts, fault \in {"none", "embed"} :
          eret' = [op |-> "embed_one", texts |-> <<text>>,
                   result |-> EmbedderEmbedOne(model, provider, text, fault)]
    /\ UNCHANGED <<model, provider>>
    /\ UNCHANGED <<chunkerVars, storeVars>>

EmbedWithProgress ==
    /\ \E texts \in TextLists, batch_size \in 1..(MaxTexts + 1) :
       \E fail_at \in 0..Len(texts) :
          LET o == EmbedderEmbedWithProgress(model, provider, texts,
                                             batch_size, fail_at)
          IN  eret' = [op |-> "embed_with_progress", texts |-> texts,
                       batch_size |-> batch_size, calls |-> o.calls,
                       result |-> o.result]
    /\ UNCHANGED <<model, provider>>
    /\ UNCHANGED <<chunkerVars, storeVars>>

InitEmbed ==
    /\ ChunkerUnused
    /\ EmbedderUnused
    /\ StoreUnused

NextEmbed ==
    \/ EmbedderInit
    \/ EmbedderIsInit
    \/ Embed
    \/ EmbedOne
    \/ EmbedWithProgress

SpecEmbed == InitEmbed /\ [][NextEmbed]_vars

---------------------------------------------------------------------------
(* indexer_index_file (commands.rs): read, chunk, embed, remove the file's *)
(* old chunks, insert the new ones.  Each store call takes the mutex for   *)
(* itself, so the command is a sequence of steps.                          *)

\* the files that are indexed: one chunked by lines, one by its syntax tree
IndexFiles == {<<"hex-1", "test.txt">>, <<"hex-1", "TEST.RS">>}

\* the contents of the files that are indexed
IndexContents == {<<>>, ThreeDecls}

\* what Embedder::embed may return for n texts: an error, or one vector of the
\* model's dimension per text
EmbedOutcomes(n) == {Err("Embed")} \cup {Ok(e) : e \in [1..n -> Vectors]}

\* a call that has returned
Done(t, result) == [t EXCEPT !.pc = "done", !.result = result]

ReadFailed_Zero == Ok(0)

\* lines 72-74: what indexer_index_file returns when read_to_string fails
ReadFailed == Err("Failed to read file")

AfterEmbed_Insert == "insert"

\* the store call that follows a successful embed, in indexer_index_file
\* (line 93) and in indexer_index_directory (line 231)
AfterEmbed == "remove"

\* mutant of Successor: the old chunks are removed before the new ones are
\* embedded
Successor_RemoveFirst(pc) ==
    CASE pc = "chunk"  -> "remove"
      [] pc = "remove" -> "embed"
      [] pc = "embed"  -> "insert"

\* the order of the statements of indexer_index_file after chunk_file:
\* embed (line 90), remove_file (lines 93-95), the insert loop (lines 98-100)
Successor(pc) ==
    CASE pc = "chunk"  -> "embed"
      [] pc = "embed"  -> AfterEmbed
      [] pc = "remove" -> "insert"

\* lines 72-86: read the file and chunk it with the state's configuration;
\* chunk_file draws one fresh id per chunk
IndexStart ==
    /\ task.pc \in {"idle", "done"}
    /\ \E file \in IndexFiles,
          read \in {Err("read")} \cup {Ok(text) : text \in IndexContents} :
          LET fs == file[1]
              path == file[2]
              t == [IdleTask EXCEPT !.fs = fs, !.path = path,
                                    !.read = read] IN
          IF ~read.ok
          THEN /\ task' = Done(t, ReadFailed)
               /\ next_uuid' = next_uuid
          ELSE \E p \in ParseCalls(path, read.value) :
               LET cs == chunk_file(fs, path, read.value, DefaultConfig, p,
                                    next_uuid)
               IN  /\ next_uuid + Len(cs) <= MaxUuid + 1
                   /\ next_uuid' = next_uuid + Len(cs)
                   /\ IF cs = <<>>
                      THEN task' = Done(t, Ok(0))
                      ELSE task' = [t EXCEPT !.pc = Successor("chunk"),
                                             !.chunks = cs]
    /\ UNCHANGED <<conn, code_chunks, chunk_embeddings, ret>>
    /\ UNCHANGED <<chunkerVars, embedderVars, peer>>

\* lines 89-90: state.embedder.embed(texts).map_err(|e| e.to_string())?
IndexEmbed ==
    /\ task.cmd = "index_file"
    /\ task.pc = "embed"
    /\ \E e \in EmbedOutcomes(Len(task.chunks)) :
          task' = IF ~e.ok THEN Done(task, Err("Embed"))
                  ELSE [task EXCEPT !.pc = Successor("embed"),
                                    !.embeddings = e.value]
    /\ UNCHANGED <<conn, code_chunks, chunk_embeddings, ret, next_uuid>>
    /\ UNCHANGED <<chunkerVars, embedderVars, peer>>

\* lines 93-95: state.store.remove_file(filesystem_hex_id, file_path)?
IndexRemove ==
    /\ task.cmd = "index_file"
    /\ task.pc = "remove"
    /\ \E f \in DeleteFaults(FileChunkIds(code_chunks, task.fs, task.path)) :
          LET o == StoreRemoveFile(conn, code_chunks, chunk_embeddings,
                                   task.fs, task.path, f[1], f[2])
              t == [task EXCEPT
                       !.removed = TRUE,
                       !.old = FileChunkIds(code_chunks, task.fs, task.path)]
          IN  /\ code_chunks' = o.cc
              /\ chunk_embeddings' = o.ce
              /\ task' = IF o.result.ok
                         THEN [t EXCEPT !.pc = Successor("remove")]
                         ELSE Done(t, o.result)
    /\ UNCHANGED <<conn, ret, next_uuid>>
    /\ UNCHANGED <<chunkerVars, embedderVars, peer>>

\* lines 98-100, one turn of the loop: state.store.insert(chunk, embedding)?
IndexInsert ==
    /\ task.cmd = "index_file"
    /\ task.pc = "insert"
    /\ task.i <= Len(task.chunks)
    /\ \E fault \in {"none", "chunk_row", "embedding_row"} :
          LET o == StoreInsert(conn, code_chunks, chunk_embeddings,
                               task.chunks[task.i], task.embeddings[task.i],
                               fault)
          IN  /\ code_chunks' = o.cc
              /\ chunk_embeddings' = o.ce
              /\ task' = IF o.result.ok THEN [task EXCEPT !.i = task.i + 1]
                         ELSE Done(task, o.result)
    /\ UNCHANGED <<conn, ret, next_uuid>>
    /\ UNCHANGED <<chunkerVars, embedderVars, peer>>

\* line 102: Ok(chunks.len())
IndexReturn ==
    /\ task.cmd = "index_file"
    /\ task.pc = "insert"
    /\ task.i > Len(task.chunks)
    /\ task' = Done(task, Ok(Len(task.chunks)))
    /\ UNCHANGED <<conn, code_chunks, chunk_embeddings, ret, next_uuid>>
    /\ UNCHANGED <<chunkerVars, embedderVars, peer>>

\* the files a walk of the requested directory yields after the filters of
\* lines 180-205, in the walk's order
Walks ==
    {<<>>} \cup {<<f[2]>> : f \in IndexFiles}
           \cup {w \in {<<f[2], g[2]>> : f \in IndexFiles, g \in IndexFiles} :
                     w[1] # w[2]}

\* mutant of DirSkip: a file that fails ends the pass with an error
DirSkip_Abort(t) == Done(t, Err("Failed"))

\* lines 222-224, 243-245, 247-253: the pass goes on with the next file
DirSkip(t) == [t EXCEPT !.rest = Tail(t.rest)]

\* indexer_index_directory, lines 161-176: the path must exist and be a
\* directory; the counters start at zero
DirStart ==
    /\ task.pc \in {"idle", "done"}
    /\ \E target \in {"missing", "file", "dir"}, entries \in Walks :
          LET t == [IdleTask EXCEPT !.cmd = "index_directory",
                                    !.target = target] IN
          task' = CASE target = "missing" ->
                         Done(t, Err("Directory does not exist"))
                    [] target = "file" ->
                         Done(t, Err("Path is not a directory"))
                    [] target = "dir" ->
                         [t EXCEPT !.pc = "walk", !.entries = entries,
                                   !.rest = entries]
    /\ UNCHANGED <<conn, code_chunks, chunk_embeddings, ret, next_uuid>>
    /\ UNCHANGED <<chunkerVars, embedderVars, peer>>

\* one file of the walk, lines 213-228: a file that cannot be read, has no
\* chunks or cannot be embedded is skipped
DirFile ==
    /\ task.cmd = "index_directory"
    /\ task.pc = "walk"
    /\ task.rest # <<>>
    /\ \E read \in {Err("read")} \cup {Ok(text) : text \in IndexContents} :
          LET fs == task.fs
              path == Head(task.rest)
              t == [task EXCEPT !.path = path, !.read = read,
                                !.chunks = <<>>, !.embeddings = <<>>,
                                !.i = 1, !.removed = FALSE, !.old = {},
                                !.failed = FALSE]
              bad == [t EXCEPT !.failures = t.failures + 1] IN
          IF ~read.ok
          THEN /\ task' = DirSkip(bad)
               /\ next_uuid' = next_uuid
          ELSE \E p \in ParseCalls(path, read.value) :
               LET cs == chunk_file(fs, path, read.value, DefaultConfig, p,
                                    next_uuid)
               IN  /\ next_uuid + Len(cs) <= MaxUuid + 1
                   /\ next_uuid' = next_uuid + Len(cs)
                   /\ IF cs = <<>>
                      THEN task' = DirSkip(t)
                      ELSE \E e \in EmbedOutcomes(Len(cs)) :
                           IF ~e.ok
                           THEN task' = DirSkip([bad EXCEPT !.chunks = cs])
                           ELSE task' = [t EXCEPT !.pc = AfterEmbed,
                                                  !.chunks = cs,
                                                  !.embeddings = e.value]
    /\ UNCHANGED <<conn, code_chunks, chunk_embeddings, ret>>
    /\ UNCHANGED <<chunkerVars, embedderVars, peer>>

\* line 231: let _ = state.store.remove_file(..), its result is dropped
DirRemove ==
    /\ task.cmd = "index_directory"
    /\ task.pc = "remove"
    /\ \E f \in DeleteFaults(FileChunkIds(code_chunks, task.fs, task.path)) :
          LET o == StoreRemoveFile(conn, code_chunks, chunk_embeddings,
                                   task.fs, task.path, f[1], f[2])
          IN  /\ code_chunks' = o.cc
              /\ chunk_embeddings' = o.ce
              /\ task' = [task EXCEPT
                             !.pc = "insert",
                             !.removed = TRUE,
                             !.old = FileChunkIds(code_chunks, task.fs,
                                                  task.path),
                             !.failures = IF o.result.ok THEN @ ELSE @ + 1]
    /\ UNCHANGED <<conn, ret, next_uuid>>
    /\ UNCHANGED <<chunkerVars, embedderVars, peer>>

\* lines 234-238, one turn of the loop: a failed insert is printed and the
\* loop goes on
DirInsert ==
    /\ task.cmd = "index_directory"
    /\ task.pc = "insert"
    /\ task.i <= Len(task.chunks)
    /\ \E fault \in {"none", "chunk_row", "embedding_row"} :
          LET o == StoreInsert(conn, code_chunks, chunk_embeddings,
                               task.chunks[task.i], task.embeddings[task.i],
                               fault)
          IN  /\ code_chunks' = o.cc
              /\ chunk_embeddings' = o.ce
              /\ task' = IF o.result.ok
                         THEN [task EXCEPT !.i = task.i + 1,
                                           !.inserted = @ + 1]
                         ELSE [task EXCEPT !.i = task.i + 1,
                                           !.failed = TRUE,
                                           !.failures = @ + 1]
    /\ UNCHANGED <<conn, ret, next_uuid>>
    /\ UNCHANGED <<chunkerVars, embedderVars, peer>>

\* lines 240-241: chunks_indexed += file_chunks.len(); files_processed += 1;
\* and the walk goes on
DirNext ==
    /\ task.cmd = "index_directory"
    /\ task.pc = "insert"
    /\ task.i > Len(task.chunks)
    /\ task' = [task EXCEPT
                   !.pc = "walk",
                   !.rest = Tail(task.rest),
                   !.chunks_indexed = @ + Len(task.chunks),
                   !.files_processed = @ + 1,
                   !.complete = IF task.failed THEN @ ELSE @ + 1]
    /\ UNCHANGED <<conn, code_chunks, chunk_embeddings, ret, next_uuid>>
    /\ UNCHANGED <<chunkerVars, embedderVars, peer>>

\* lines 257-260: Ok(IndexResult { chunks_indexed, files_processed })
DirReturn ==
    /\ task.cmd = "index_directory"
    /\ task.pc = "walk"
    /\ task.rest = <<>>
    /\ task' = Done(task, Ok([chunks_indexed |-> task.chunks_indexed,
                              files_processed |-> task.files_processed]))
    /\ UNCHANGED <<conn, code_chunks, chunk_embeddings, ret, next_uuid>>
    /\ UNCHANGED <<chunkerVars, embedderVars, peer>>

\* the application's setup (lib.rs) has built the state and opened the
\* store's database: store.initialize(..).expect(..) ends the program if not
InitIndex ==
    /\ ChunkerUnused
    /\ EmbedderUnused
    /\ conn = TRUE
    /\ code_chunks = <<>>
    /\ chunk_embeddings = <<>>
    /\ ret = [op |-> "none"]
    /\ task = IdleTask
    /\ peer = IdleTask
    /\ next_uuid = 1

NextIndex ==
    \/ IndexStart
    \/ IndexEmbed
    \/ IndexRemove
    \/ IndexInsert
    \/ IndexReturn

SpecIndex == InitIndex /\ [][NextIndex]_vars

\* the rows an earlier indexing of `file` left: one chunk with its vector
StoredBefore(file) ==
    LET old == CodeChunk(1, file[1], file[2], 1, 1, <<"a">>,
                         detect_language(file[2]))
    IN  [cc |-> InsertChunkRow(<<>>, old),
         ce |-> InsertEmbeddingRow(<<>>, 1, [i \in 1..EmbeddingDim |-> 0])]

\* the two indexing commands on a store that is empty or holds the chunk of
\* an earlier indexing, with ids left for two new chunks
InitWalk ==
    /\ ChunkerUnused
    /\ EmbedderUnused
    /\ conn = TRUE
    /\ \E stored \in {[cc |-> <<>>, ce |-> <<>>]}
                      \cup {StoredBefore(f) : f \in IndexFiles} :
          /\ code_chunks = stored.cc
          /\ chunk_embeddings = stored.ce
    /\ ret = [op |-> "none"]
    /\ task = IdleTask
    /\ peer = IdleTask
    /\ next_uuid = MaxUuid - 1

NextWalk ==
    \/ IndexStart
    \/ IndexEmbed
    \/ IndexRemove
    \/ IndexInsert
    \/ IndexReturn
    \/ DirStart
    \/ DirFile
    \/ DirRemove
    \/ DirInsert
    \/ DirNext
    \/ DirReturn

SpecWalk == InitWalk /\ [][NextWalk]_vars

---------------------------------------------------------------------------
(* Claims about the vector store (checked under SpecSearch and SpecStore).  *)

\* the last store call was a search that returned results
SearchReturned == ret.op = "search" /\ ret.result.ok

\* the chunks that have both a metadata row and a vector
PairedIds == DOMAIN code_chunks \cap DOMAIN chunk_embeddings

\* C7: search returns at most `limit` results in non-decreasing order of
\* distance; with a non-empty collection-id set every result's collection id
\* is in the set; with the empty set no result is left out for its collection.
C7_SearchOrderedAndScoped ==
    SearchReturned =>
        LET r == ret.result.value IN
        /\ Len(r) <= ret.limit
        /\ \A i, j \in DOMAIN r : i < j => r[i].distance <= r[j].distance
        /\ ret.fs_ids # {} =>
              \A i \in DOMAIN r : r[i].chunk.filesystem_hex_id \in ret.fs_ids
        /\ (ret.fs_ids = {} /\ DOMAIN chunk_embeddings \subseteq DOMAIN code_chunks)
              => Len(r) = Min(ret.limit, Cardinality(DOMAIN chunk_embeddings))

\* C7 witness: a search scoped to one collection returned its chunk and left
\* out a stored chunk of the other collection
C7_Witness ==
    /\ SearchReturned
    /\ ret.fs_ids = {"hex-1"}
    /\ ret.limit = 2
    /\ Len(ret.result.value) = 1
    /\ \E id \in PairedIds : code_chunks[id].filesystem_hex_id = "hex-2"

\* C8 as stated: a search with a non-empty collection-id set returns the
\* min(limit, M) chunks nearest to the query among the M stored chunks, with a
\* vector, of those collections.
C8_NearestWithinCollections ==
    (SearchReturned /\ ret.fs_ids # {}) =>
        LET r == ret.result.value
            eligible == {id \in PairedIds :
                            code_chunks[id].filesystem_hex_id \in ret.fs_ids}
            returned == {r[i].chunk.id : i \in DOMAIN r}
        IN  /\ Len(r) = Min(ret.limit, Cardinality(eligible))
            /\ returned \subseteq eligible
            /\ \A a \in returned, b \in eligible \ returned :
                  Distance(chunk_embeddings[a], ret.query)
                      <= Distance(chunk_embeddings[b], ret.query)

\* C9 as stated: after any sequence of store operations, failed ones
\* included, the chunk ids of the metadata table are those of the vector index.
C9_TablesPaired == DOMAIN code_chunks = DOMAIN chunk_embeddings

---------------------------------------------------------------------------
(* Claims about replacing a file's chunks (checked under SpecIndex).       *)

\* the ids of the chunks the command chunked
NewIds == {task.chunks[i].id : i \in DOMAIN task.chunks}

\* the command removed the file's chunks and inserted all the new ones
Replaced == task.pc = "done" /\ task.result.ok /\ task.chunks # <<>>

\* C10: after remove_file(collection, path) and the inserts of a new chunk set
\* for that file have succeeded, the chunks stored for the file are exactly
\* the new ones, each once with its fields and paired with its vector, and no
\* chunk stored for the file before is left.
C10_ReplaceLeavesNewSet ==
    Replaced =>
        /\ FileChunkIds(code_chunks, task.fs, task.path) = NewIds
        /\ Cardinality(NewIds) = Len(task.chunks)
        /\ \A i \in DOMAIN task.chunks :
              LET id == task.chunks[i].id IN
              /\ code_chunks[id] = task.chunks[i]
              /\ id \in DOMAIN chunk_embeddings
              /\ chunk_embeddings[id] = task.embeddings[i]
        /\ task.old \cap DOMAIN code_chunks = {}

\* C10 witness: a file that had chunks stored was indexed again and got
\* several new chunks
C10_Witness ==
    /\ Replaced
    /\ task.old # {}
    /\ Len(task.chunks) >= 2

---------------------------------------------------------------------------
(* Claims about single store calls (checked under SpecStore).              *)

\* the step is an insert that returned Ok
InsertedOk == ret'.op = "insert" /\ ret'.result.ok

\* table t2 is table t with the row of `id` set to `row`, other rows as in t
Upserted(t, t2, id, row) ==
    /\ DOMAIN t2 = DOMAIN t \cup {id}
    /\ t2[id] = row
    /\ \A other \in DOMAIN t \ {id} : t2[other] = t[other]

\* C11: an insert that returns Ok leaves, in the metadata table and in the
\* vector index, one row for chunk.id carrying exactly the given chunk fields
\* and the given embedding, whatever row the id had before, and leaves the
\* rows of every other id as they were.
C11_InsertIsUpsert ==
    [][InsertedOk =>
          /\ Upserted(code_chunks, code_chunks', ret'.chunk.id, ret'.chunk)
          /\ Upserted(chunk_embeddings, chunk_embeddings', ret'.chunk.id,
                      ret'.embedding)]_vars

\* C11 witness: an insert returned Ok while the store holds another id's rows
\* and the given row differs from a possible earlier one by its file
C11_Witness ==
    /\ ret.op = "insert"
    /\ ret.result.ok
    /\ ret.chunk.id = 1
    /\ ret.chunk.file_path = "TEST.RS"
    /\ code_chunks[1] = ret.chunk
    /\ chunk_embeddings[1] = ret.embedding
    /\ 2 \in DOMAIN code_chunks \cap DOMAIN chunk_embeddings

\* the step is a remove_file or clear_filesystem that returned Ok after
\* reading every row of its SELECT
DeletedOk ==
    /\ ret'.op \in {"remove_file", "clear_filesystem"}
    /\ ret'.result.ok
    /\ ~ret'.dropped

\* whether a metadata row matches the key of the delete call that returned r
MatchesKey(row, r) ==
    /\ row.filesystem_hex_id = r.fs
    /\ r.op = "remove_file" => row.file_path = r.path

---------------------------------------------------------------------------
(* Claims about single calls on any database (checked under SpecCall).     *)

\* the methods that need the connection
NeedsConnection ==
    {"insert", "remove_file", "search", "get_chunk_count", "get_indexed_files",
     "clear_filesystem"}

\* C13: while the store is Uninitialized, insert, remove_file, search,
\* get_chunk_count, get_indexed_files and clear_filesystem each fail with
\* NotInitialized and change nothing, the store staying Uninitialized;
\* is_initialized answers false without failing.
C13_UninitializedFails ==
    [][~conn =>
          /\ ret'.op \in NeedsConnection =>
                /\ ret'.result = Err("NotInitialized")
                /\ ~conn'
                /\ UNCHANGED <<code_chunks, chunk_embeddings>>
          /\ ret'.op = "is_initialized" =>
                /\ ret'.result = FALSE
                /\ ~conn']_vars

\* C13 witness: a search on a store that was not initialized, whose database
\* holds chunks, failed with NotInitialized
C13_Witness ==
    /\ ~conn
    /\ ret.op = "search"
    /\ ret.result = Err("NotInitialized")
    /\ DOMAIN code_chunks \cap DOMAIN chunk_embeddings # {}

\* how many times x occurs in the sequence seq
Occurrences(seq, x) == Cardinality({i \in DOMAIN seq : seq[i] = x})

\* the chunks stored for a file
StoredFor(cc, fs, path) ==
    {id \in DOMAIN cc : cc[id].filesystem_hex_id = fs /\ cc[id].file_path = path}

---------------------------------------------------------------------------
(* Claims about the embedder (checked under SpecEmbed).                    *)

\* C15: initialize called while a model is loaded returns Ok without loading
\* a model and leaves the loaded model in place; once a model is loaded, no
\* call leaves the embedder without one.
C15_InitializeIdempotent ==
    [][model # 0 =>
          /\ model' # 0
          /\ eret'.op = "initialize" =>
                /\ eret'.result = Ok(<<>>)
                /\ ~eret'.loaded
                /\ model' = model
                /\ provider' = provider]_vars

\* C15 witness: initialize returned Ok on a loaded model, loading nothing
C15_Witness ==
    /\ model = 1
    /\ eret.op = "initialize"
    /\ eret.result.ok
    /\ ~eret.loaded

\* the methods that embed
EmbedMethods == {"embed", "embed_one", "embed_with_progress"}

\* C16: with no model loaded, embed, embed_one and embed_with_progress on a
\* non-empty input fail with NotInitialized; an initialize that fails returns
\* an initialization error and leaves the embedder without a model, so that
\* embedding still fails with NotInitialized.
C16_UninitializedEmbedFails ==
    [][/\ (model = 0 /\ eret'.op \in EmbedMethods /\ eret'.texts # <<>>) =>
             /\ eret'.result = Err("NotInitialized")
             /\ model' = 0
       /\ (eret'.op = "initialize" /\ ~eret'.result.ok) =>
             /\ eret'.result = Err("InitError")
             /\ model = 0
             /\ model' = 0]_vars

\* C16 witness: embed_with_progress on two texts failed with NotInitialized,
\* having reported no progress
C16_Witness ==
    /\ model = 0
    /\ eret.op = "embed_with_progress"
    /\ Len(eret.texts) = 2
    /\ eret.result = Err("NotInitialized")
    /\ eret.calls = <<>>

\* the last call was an embed_with_progress in which no batch's embed failed
\* in the model
ProgressRan == eret.op = "embed_with_progress" /\ eret.result # Err("EmbedError")

\* C17: for every batch_size >= 1, embed_with_progress on a loaded model, or
\* on a non-empty input, returns what embed(texts) returns: one embedding per
\* text, embedding i being that of text i.
C17_BatchesInvisible ==
    (ProgressRan /\ (model # 0 \/ eret.texts # <<>>)) =>
        /\ eret.result = EmbedderEmbed(model, provider, eret.texts, "none")
        /\ eret.result.ok =>
              /\ Len(eret.result.value) = Len(eret.texts)
              /\ \A i \in DOMAIN eret.texts :
                    eret.result.value[i] = provider[eret.texts[i]]

\* C17 witness: three texts, not all the same, embedded in batches of two
C17_Witness ==
    /\ eret.op = "embed_with_progress"
    /\ eret.result.ok
    /\ eret.batch_size = 2
    /\ eret.texts = <<<<"a">>, <<>>, <<"a">>>>
    /\ provider[<<"a">>] # provider[<<>>]

\* the number of batches of T texts in batches of b
Ceil(T, b) == (T + b - 1) \div b

\* C18: embed_with_progress on T texts with batch_size b >= 1 calls
\* on_progress with (min((i+1)*b, T), T) after the i-th batch, so processed
\* strictly increases; when every batch succeeds there are ceil(T/b) calls and
\* the last reports T; when a batch fails the error is returned, without
\* embeddings, and no call is made for that batch or a later one.
C18_ProgressCalls ==
    eret.op = "embed_with_progress" =>
        LET T == Len(eret.texts)
            b == eret.batch_size
            n == Len(eret.calls)
        IN  /\ \A i \in 1..n : eret.calls[i] = <<Min(i * b, T), T>>
            /\ \A i, j \in 1..n : i < j => eret.calls[i][1] < eret.calls[j][1]
            /\ eret.result.ok =>
                  /\ n = Ceil(T, b)
                  /\ n > 0 => eret.calls[n][1] = T
                  /\ Len(eret.result.value) = T
            /\ ~eret.result.ok =>
                  /\ n < Ceil(T, b)
                  /\ DOMAIN eret.result = {"ok", "error"}

\* C18 witness: three texts in batches of two, the last batch smaller
C18_Witness ==
    /\ eret.op = "embed_with_progress"
    /\ eret.result.ok
    /\ eret.calls = <<<<2, 3>>, <<3, 3>>>>

---------------------------------------------------------------------------
(* Claims about the order and the result of indexing (checked under       *)
(* SpecIndex).                                                             *)

\* C19: in indexer_index_file, and for each file of indexer_index_directory,
\* the command is about to insert only after its remove_file has returned,
\* and is about to call remove_file only before any of its inserts.
C19_RemoveBeforeInsert ==
    /\ task.pc = "insert" => task.removed
    /\ task.pc = "remove" => ~task.removed /\ task.i = 1

\* C19 witness: the directory walk is at the second insert of a file, whose
\* remove_file returned before the first
C19_Witness ==
    /\ task.cmd = "index_directory"
    /\ task.pc = "insert"
    /\ task.i = 2
    /\ task.removed

\* an indexer_index_file call has returned
IndexFileReturned == task.cmd = "index_file" /\ task.pc = "done"

\* C20 as stated: indexer_index_file returns 0, not an error, when the file
\* is unreadable or its content is empty.
C20_Original ==
    (IndexFileReturned /\ (~task.read.ok \/ task.read.value = <<>>)) =>
        task.result = Ok(0)

\* C20: indexer_index_file returns an error when the file is unreadable, 0
\* when its content is empty, and whenever it returns Ok the value is the
\* number of chunks produced for the file; it returns Ok when the file was
\* read and the embed, remove_file and insert calls all succeeded.
C20_CountOrError ==
    IndexFileReturned =>
        /\ ~task.read.ok =>
              /\ task.result = Err("Failed to read file")
              /\ task.chunks = <<>>
        /\ (task.read.ok /\ task.read.value = <<>>) => task.result = Ok(0)
        /\ task.result.ok =>
              /\ task.read.ok
              /\ task.result.value = Len(task.chunks)
              /\ task.chunks # <<>> =>
                    task.removed /\ task.i = Len(task.chunks) + 1

\* C20 witness: a call on an unreadable file has returned, after an earlier
\* call stored chunks
C20_Witness ==
    /\ IndexFileReturned
    /\ ~task.read.ok
    /\ ~task.result.ok
    /\ code_chunks # <<>>


---------------------------------------------------------------------------
(* Further claims about chunk_file (checked under SpecChunk).              *)

\* every chunk returned has 1 <= start_line <= end_line
RangesOrdered ==
    \A k \in DOMAIN chunks :
        1 <= chunks[k].start_line /\ chunks[k].start_line <= chunks[k].end_line

\* C22 as stated: every chunk chunk_file returns has
\* 1 <= start_line <= end_line, for every content and every configuration.
C22_Original == cpc = "done" => RangesOrdered

\* C22: every chunk chunk_file returns has 1 <= start_line <= end_line, for
\* every content and every configuration with max_chunk_lines >= 1.
C22_LineRangeOrdered ==
    (cpc = "done" /\ config.max_chunk_lines >= 1) => RangesOrdered

\* C22 witness: several windows under a configuration whose overlap is not
\* below max_chunk_lines
C22_Witness ==
    /\ cpc = "done"
    /\ config.max_chunk_lines >= 1
    /\ config.overlap_lines >= config.max_chunk_lines
    /\ Len(chunks) >= 2

\* the number of lines chunk k spans
Span(k) == chunks[k].end_line - chunks[k].start_line + 1

\* chunk k spans fewer than min_chunk_lines lines
Short(k) == Span(k) < config.min_chunk_lines

\* chunk k is a small unit emitted whole
WholeSmallUnit(k) ==
    \E i \in DOMAIN units :
        /\ UnitIsSmall(units[i], config)
        /\ chunks[k].start_line = units[i].start_line + 1
        /\ chunks[k].end_line = units[i].end_line + 1

\* C23 as stated: a chunk spanning fewer than min_chunk_lines lines occurs
\* only as the first and only chunk of the result.
C23_Original ==
    cpc = "done" => \A k \in DOMAIN chunks : Short(k) => Len(chunks) = 1

\* C23: on the line-based path a chunk spanning fewer than min_chunk_lines
\* lines occurs only as the first and only chunk, and the loop stops before
\* the last line only by discarding a window shorter than min_chunk_lines; on
\* the unit-based path such a chunk is the first chunk or a small unit
\* emitted whole.
C23_ShortOnlyFirst ==
    cpc = "done" =>
        /\ LineBasedCase =>
              /\ \A k \in DOMAIN chunks : Short(k) => Len(chunks) = 1
              /\ (chunks # <<>> /\ chunks[Len(chunks)].end_line < LineCount) =>
                    LET start == Len(chunks) * WindowStep(config)
                        end == Min(start + config.max_chunk_lines, LineCount)
                    IN  start < LineCount => end - start < config.min_chunk_lines
        /\ ~LineBasedCase =>
              \A k \in DOMAIN chunks : Short(k) => (k = 1 \/ WholeSmallUnit(k))

\* C23 witness: a line-based result whose only chunk is shorter than
\* min_chunk_lines, the window after it having been discarded
C23_Witness ==
    /\ cpc = "done"
    /\ LineBasedCase
    /\ LineCount > config.max_chunk_lines
    /\ Len(chunks) = 1
    /\ Short(1)
    /\ chunks[1].end_line < LineCount


---------------------------------------------------------------------------
(* Claims about extract_semantic_units (checked under SpecExtract).        *)

\* the node a path of child indices leads to, from the root's children
RECURSIVE NodeAt(_, _)
NodeAt(nodes, path) ==
    IF Len(path) = 1 THEN nodes[path[1]]
    ELSE NodeAt(nodes[path[1]].children, Tail(path))

RECURSIVE ValidPath(_, _)
ValidPath(nodes, path) ==
    /\ path[1] \in DOMAIN nodes
    /\ Len(path) = 1 \/ ValidPath(nodes[path[1]].children, Tail(path))

\* the paths of the nodes of the parsed tree
TreePaths ==
    {p \in UNION {[1..d -> 1..2] : d \in 1..MaxTreeDepth} :
        ValidPath(parsed[1].tree, p)}

\* the declaration nodes none of whose ancestors is a declaration
TopDeclarations ==
    LET kinds == top_level_kinds(parsed[1].language) IN
    {p \in TreePaths :
        /\ NodeAt(parsed[1].tree, p).kind \in kinds
        /\ \A d \in 1..(Len(p) - 1) :
              NodeAt(parsed[1].tree, SubSeq(p, 1, d)).kind \notin kinds}

\* p comes before q in the document: they part at a child index, p's smaller
DocBefore(p, q) ==
    \E i \in 1..Min(Len(p), Len(q)) :
        /\ p[i] < q[i]
        /\ \A j \in 1..(i - 1) : p[j] = q[j]

\* C24: extract_semantic_units returns one unit for every declaration node
\* that has no declaration among its ancestors and no other unit, the units
\* come in document order, and their byte ranges are disjoint and increasing.
C24_TopDeclarationsInOrder ==
    cpc = "done" =>
        /\ Len(units) = Cardinality(TopDeclarations)
        /\ \A p \in TopDeclarations :
              units[1 + Cardinality({q \in TopDeclarations : DocBefore(q, p)})]
                 = SemanticUnit(NodeAt(parsed[1].tree, p), parsed[1].source)
        /\ \A i, j \in DOMAIN units :
              i < j => units[i].end_byte <= units[j].start_byte

\* C24 witness: a declaration with a declaration inside, followed by a
\* declaration inside a node that is none: two units
C24_Witness ==
    /\ cpc = "done"
    /\ Len(units) = 2
    /\ TopDeclarations = {<<1>>, <<2, 1>>}
    /\ <<1, 1>> \in TreePaths
    /\ NodeAt(parsed[1].tree, <<1, 1>>).kind
          \in top_level_kinds(parsed[1].language)


---------------------------------------------------------------------------
(* Claims about the windows of a large unit (checked under SpecChunk).     *)

\* the chunks chunk_file_tree_sitter pushed while it handled unit i
ChunksOfUnit(i) == SubSeq(chunks, PushedAfter(i - 1) + 1, PushedAfter(i))

\* the windows the line-based loop makes of unit i's own lines, when it
\* starts with the chunks pushed for the units before
LineWindowsOfUnit(i) ==
    LET before == SubSeq(chunks, 1, PushedAfter(i - 1))
        all == LineWindows("hex-1", file_path, Lines(units[i].content),
                           config, 1, 0, before)
    IN  SubSeq(all, Len(before) + 1, Len(all))

\* the k-th chunk of unit i is the k-th sliding window of the unit's lines,
\* its line numbers offset by the unit's start line
WindowOfUnit(i, k) ==
    LET u == units[i]
        w == LineWindowsOfUnit(i)[k]
        c == ChunksOfUnit(i)[k]
        window_start == (k - 1) * ClaimedStep
        window_end == Min(window_start + config.max_chunk_lines,
                          Len(Lines(u.content)))
    IN  /\ c.start_line = u.start_line + w.start_line
        /\ c.end_line = u.start_line + w.end_line
        /\ c.content = w.content
        /\ c.start_line = u.start_line + window_start + 1
        /\ c.end_line = u.start_line + window_end
        /\ u.start_line + 1 <= c.start_line
        /\ c.end_line <= u.end_line + 1

\* the chunks of unit i cover its lines from the first to the end of the last
\* window
UnitCovered(i) ==
    LET cs == ChunksOfUnit(i) IN
    cs # <<>> =>
        \A l \in (units[i].start_line + 1)..(cs[Len(cs)].end_line) :
            \E k \in DOMAIN cs : cs[k].start_line <= l /\ l <= cs[k].end_line

\* the units with more than max_chunk_lines lines
LargeUnits == {i \in DOMAIN units : ~ClaimedSmall(units[i])}

\* C25 as stated: a unit with more than max_chunk_lines lines is split by the
\* sliding window of the line-based path applied to its own lines, its
\* chunks' line numbers offset by the unit's start line, inside the unit's
\* range, and covering the unit's lines up to the last window.
C25_Original ==
    (cpc = "done" /\ ~LineBasedCase) =>
        \A i \in LargeUnits :
            /\ Len(ChunksOfUnit(i)) = Len(LineWindowsOfUnit(i))
            /\ \A k \in DOMAIN ChunksOfUnit(i) : WindowOfUnit(i, k)
            /\ UnitCovered(i)

\* C25: a unit with more than max_chunk_lines lines is split by the sliding
\* window of the line-based path applied to its own lines: chunk k has
\* start_line = unit_start + window_start + 1 and
\* end_line = unit_start + window_end and lies inside the unit's range; when
\* max_chunk_lines >= 1 the chunks cover the unit's lines from its first line
\* up to the last emitted window.
C25_LargeUnitWindows ==
    (cpc = "done" /\ ~LineBasedCase) =>
        \A i \in LargeUnits :
            /\ Len(ChunksOfUnit(i)) = Len(LineWindowsOfUnit(i))
            /\ \A k \in DOMAIN ChunksOfUnit(i) : WindowOfUnit(i, k)
            /\ config.max_chunk_lines >= 1 => UnitCovered(i)

\* C25 witness: a unit that does not start on the first line is split into
\* two windows
C25_Witness ==
    /\ cpc = "done"
    /\ ~LineBasedCase
    /\ config.max_chunk_lines >= 1
    /\ \E i \in LargeUnits :
          /\ units[i].start_line >= 1
          /\ Len(ChunksOfUnit(i)) >= 2


---------------------------------------------------------------------------
(* Claims about the window loops (checked under SpecLoopFair).             *)

\* chunk_file is in one of its two while loops
InWindowLoop == cpc \in {"lines", "unit_loop"}

\* the lines the running loop goes over
LoopLines ==
    IF cpc = "lines" THEN Lines(content) ELSE Lines(Head(units).content)

\* C26: the sliding-window loops end for every content and configuration,
\* overlap_lines >= max_chunk_lines and max_chunk_lines = 0 included: the
\* step is at least 1, each turn either leaves the loop or emits one window
\* that starts below the N lines and moves start up, so at most N windows
\* are emitted, and chunk_file returns.
C26_LoopTerminates ==
    /\ [](WindowStep(config) >= 1)
    /\ [][InWindowLoop =>
             /\ chunks' # chunks =>
                   /\ loop_start < Len(LoopLines)
                   /\ Len(chunks') = Len(chunks) + 1
             /\ cpc' = cpc =>
                   /\ loop_start' > loop_start
                   /\ chunks' # chunks]_vars
    /\ [](cpc = "lines" => Len(chunks) <= Len(Lines(content)))
    /\ <>(cpc = "done")

\* C26 witness: with max_chunk_lines = 0 and an overlap above it the loop went
\* over several lines and chunk_file returned
C26_Witness ==
    /\ cpc = "done"
    /\ config.max_chunk_lines = 0
    /\ config.overlap_lines >= 1
    /\ Len(Lines(content)) >= 2
    /\ Len(chunks) = Len(Lines(content))

\* the steps of chunk_file give what the call gives as a whole
StepsAgreeWithCall ==
    cpc = "done" =>
        chunks = chunk_file("hex-1", file_path, content, config, parsed, 1)


---------------------------------------------------------------------------
(* Claims about what indexer_index_file leaves in the store (SpecIndex).   *)

\* C28 as stated: after indexer_index_file returns success for a file, the
\* chunks stored for the file are exactly the chunks this call produced from
\* the file's content, also when the content produces no chunk.
C28_SuccessLeavesCurrentChunks ==
    (IndexFileReturned /\ task.result.ok) =>
        FileChunkIds(code_chunks, task.fs, task.path) = NewIds

\* the call ended because the file could not be read or its chunks could not
\* be embedded
FailedBeforeStore ==
    /\ IndexFileReturned
    /\ task.result \in {ReadFailed, Err("Embed")}

\* C29: when reading the file or embedding its chunks fails, indexer_index_file
\* returns an error and has made no call that changes the store: the failing
\* step leaves both tables as they are, no remove_file and no insert of the
\* call came before it, and only remove_file and insert change the tables.
C29_FailureLeavesStore ==
    /\ [](FailedBeforeStore =>
             /\ ~task.result.ok
             /\ ~task.removed
             /\ task.i = 1)
    /\ []((IndexFileReturned /\ ~task.read.ok) => task.result = ReadFailed)
    /\ [][(code_chunks' # code_chunks
              \/ chunk_embeddings' # chunk_embeddings)
             => task.pc \in {"remove", "insert"}]_vars

\* C29 witness: the embedding failed for a file whose chunks of an earlier
\* indexing are all still stored with their vectors
C29_Witness ==
    /\ FailedBeforeStore
    /\ task.result = Err("Embed")
    /\ FileChunkIds(code_chunks, task.fs, task.path) # {}
    /\ FileChunkIds(code_chunks, task.fs, task.path)
          \subseteq DOMAIN chunk_embeddings


---------------------------------------------------------------------------
(* Claims about a whole pass of indexer_index_directory (SpecWalk).        *)

\* an indexer_index_directory call has returned
DirReturned == task.cmd = "index_directory" /\ task.pc = "done"

\* C21: indexer_index_directory returns an error exactly when the path is
\* missing or is not a directory.  Once the walk has begun no failure of a
\* read, of an embedding or of a store call ends it: the files are taken one
\* by one in the walk's order, the call returns only when none is left, and it
\* returns Ok with the two counters.
C21_OnlyPathErrors ==
    /\ [](DirReturned =>
             /\ task.result.ok <=> task.target = "dir"
             /\ task.target = "missing"
                   => task.result = Err("Directory does not exist")
             /\ task.target = "file"
                   => task.result = Err("Path is not a directory")
             /\ task.target = "dir" =>
                   /\ task.rest = <<>>
                   /\ task.result =
                         Ok([chunks_indexed |-> task.chunks_indexed,
                             files_processed |-> task.files_processed]))
    /\ [][(task.cmd = "index_directory" /\ task.pc \notin {"idle", "done"})
             => /\ task'.entries = task.entries
                /\ \/ task'.rest = task.rest
                   \/ task.rest # <<>> /\ task'.rest = Tail(task.rest)
                /\ task'.pc = "done" => task.rest = <<>>]_vars

\* C21 witness: a pass over two files has returned its counts; three
\* failures happened on the way (say the first file's read, and the second
\* file's remove_file and insert), and the second file was still counted
C21_Witness ==
    /\ DirReturned
    /\ task.result.ok
    /\ Len(task.entries) = 2
    /\ task.path = task.entries[2]
    /\ task.failures >= 2
    /\ task.files_processed >= 1

\* C30 as stated: the chunks_indexed returned by indexer_index_directory is
\* the number of inserts of the pass that returned Ok, and files_processed
\* the number of files all of whose inserts returned Ok.
C30_CountsAreStored ==
    (DirReturned /\ task.result.ok) =>
        /\ task.result.value.chunks_indexed = task.inserted
        /\ task.result.value.files_processed = task.complete


---------------------------------------------------------------------------
(* Two indexer_index_file calls for one file running at the same time.     *)
(* The Tauri runtime runs each async command as its own task; the store    *)
(* takes its lock inside remove_file and inside insert (store.rs) and       *)
(* gives it back when the call returns, so the store calls of the two      *)
(* commands are atomic and may alternate in any order.                      *)

Callers == {1, 2}

\* the position and the locals of caller c
Caller(c) == IF c = 1 THEN task ELSE peer

\* caller c moves on as t, the other caller stays where it is
Becomes(c, t) ==
    IF c = 1 THEN task' = t /\ peer' = peer
             ELSE peer' = t /\ task' = task

\* lines 72-86 for caller c
ConcStart(c) ==
    /\ Caller(c).pc = "idle"
    /\ \E read \in {Err("read")} \cup {Ok(text) : text \in IndexContents} :
          LET t == [Caller(c) EXCEPT !.read = read] IN
          IF ~read.ok
          THEN /\ Becomes(c, Done(t, ReadFailed))
               /\ next_uuid' = next_uuid
          ELSE \E p \in ParseCalls(t.path, read.value) :
               LET cs == chunk_file(t.fs, t.path, read.value, DefaultConfig,
                                    p, next_uuid)
               IN  /\ next_uuid + Len(cs) <= MaxUuid + 1
                   /\ next_uuid' = next_uuid + Len(cs)
                   /\ IF cs = <<>>
                      THEN Becomes(c, Done(t, Ok(0)))
                      ELSE Becomes(c, [t EXCEPT !.pc = Successor("chunk"),
                                                !.chunks = cs])
    /\ UNCHANGED <<conn, code_chunks, chunk_embeddings, ret>>
    /\ UNCHANGED <<chunkerVars, embedderVars>>

\* lines 89-90 for caller c
ConcEmbed(c) ==
    /\ Caller(c).pc = "embed"
    /\ \E e \in EmbedOutcomes(Len(Caller(c).chunks)) :
          Becomes(c, IF ~e.ok THEN Done(Caller(c), Err("Embed"))
                     ELSE [Caller(c) EXCEPT !.pc = Successor("embed"),
                                            !.embeddings = e.value])
    /\ UNCHANGED <<conn, code_chunks, chunk_embeddings, ret, next_uuid>>
    /\ UNCHANGED <<chunkerVars, embedderVars>>

\* lines 93-95 for caller c: one remove_file call, made under the store's lock
ConcRemove(c) ==
    /\ Caller(c).pc = "remove"
    /\ \E f \in DeleteFaults(FileChunkIds(code_chunks, Caller(c).fs,
                                          Caller(c).path)) :
          LET o == StoreRemoveFile(conn, code_chunks, chunk_embeddings,
                                   Caller(c).fs, Caller(c).path, f[1], f[2])
              t == [Caller(c) EXCEPT
                       !.removed = TRUE,
                       !.old = FileChunkIds(code_chunks, Caller(c).fs,
                                            Caller(c).path)]
          IN  /\ code_chunks' = o.cc
              /\ chunk_embeddings' = o.ce
              /\ Becomes(c, IF o.result.ok
                            THEN [t EXCEPT !.pc = Successor("remove")]
                            ELSE Done(t, o.result))
    /\ UNCHANGED <<conn, ret, next_uuid>>
    /\ UNCHANGED <<chunkerVars, embedderVars>>

\* lines 98-100 for caller c: one insert call, made under the store's lock
ConcInsert(c) ==
    /\ Caller(c).pc = "insert"
    /\ Caller(c).i <= Len(Caller(c).chunks)
    /\ \E fault \in {"none", "chunk_row", "embedding_row"} :
          LET o == StoreInsert(conn, code_chunks, chunk_embeddings,
                               Caller(c).chunks[Caller(c).i],
                               Caller(c).embeddings[Caller(c).i], fault)
          IN  /\ code_chunks' = o.cc
              /\ chunk_embeddings' = o.ce
              /\ Becomes(c, IF o.result.ok
                            THEN [Caller(c) EXCEPT !.i = Caller(c).i + 1]
                            ELSE Done(Caller(c), o.result))
    /\ UNCHANGED <<conn, ret, next_uuid>>
    /\ UNCHANGED <<chunkerVars, embedderVars>>

\* line 102 for caller c
ConcReturn(c) ==
    /\ Caller(c).pc = "insert"
    /\ Caller(c).i > Len(Caller(c).chunks)
    /\ Becomes(c, Done(Caller(c), Ok(Len(Caller(c).chunks))))
    /\ UNCHANGED <<conn, code_chunks, chunk_embeddings, ret, next_uuid>>
    /\ UNCHANGED <<chunkerVars, embedderVars>>

\* the frontend has invoked indexer_index_file twice for one file of a store
\* that is empty or holds the chunk of an earlier indexing of the file
InitConc ==
    /\ ChunkerUnused
    /\ EmbedderUnused
    /\ conn = TRUE
    /\ ret = [op |-> "none"]
    /\ next_uuid = 2
    /\ \E file \in IndexFiles :
          /\ \E stored \in {[cc |-> <<>>, ce |-> <<>>], StoredBefore(file)} :
                /\ code_chunks = stored.cc
                /\ chunk_embeddings = stored.ce
          /\ task = [IdleTask EXCEPT !.fs = file[1], !.path = file[2]]
          /\ peer = [IdleTask EXCEPT !.fs = file[1], !.path = file[2]]

NextConc ==
    \E c \in Callers :
        \/ ConcStart(c)
        \/ ConcEmbed(c)
        \/ ConcRemove(c)
        \/ ConcInsert(c)
        \/ ConcReturn(c)

SpecConc == InitConc /\ [][NextConc]_vars

\* the ids of the chunks caller c chunked
IdsOf(c) == {Caller(c).chunks[i].id : i \in DOMAIN Caller(c).chunks}

\* both calls have returned Ok after storing their chunks
BothStored ==
    \A c \in Callers :
        /\ Caller(c).pc = "done"
        /\ Caller(c).result.ok
        /\ Caller(c).chunks # <<>>

\* C27 as stated: when two indexer_index_file calls for the same file have
\* run at the same time and both have completed, the chunks stored for the
\* file are those of one of the two calls, never chunks of both.
C27_OneCallsChunks ==
    BothStored =>
        \E c \in Callers :
            FileChunkIds(code_chunks, task.fs, task.path) = IdsOf(c)

===========================================================================
